---- MODULE Spec2Model ----
(***************************************************************************)
(* Model of the WB tariffs sync service.                                   *)
(*                                                                         *)
(* The program is cut at `await tariffSyncService.syncTariffs()` in        *)
(* SchedulerService.runSync:                                               *)
(*                                                                         *)
(*   Spec      the process and the scheduler: main() and gracefulShutdown  *)
(*             of app.ts, the cron callback, runImmediateSync, runSync,    *)
(*             stop and getStatus of SchedulerService.  A run is the       *)
(*             promise runSync awaits: pending, then resolved (Completed)  *)
(*             or rejected (Failed).                                       *)
(*   SpecSync  the body of that promise: TariffSyncService.syncTariffs     *)
(*             with the calls it awaits (fetchBoxTariffs, upsertTariffs,   *)
(*             getTariffsByDate, updateAllSpreadsheets) and the            *)
(*             MetricsCollector, for any number of (possibly overlapping)  *)
(*             invocations.  updateAllSpreadsheets is a call that resolves *)
(*             or rejects.                                                 *)
(*   SpecSheets  the export stage of one invocation: updateAllSpreadsheets *)
(*             with the updateSpreadsheet call of every registered id, its *)
(*             attempts, the sheets they clear and write, and the tail of  *)
(*             syncTariffs that awaits it.                                 *)
(*   SpecFetch   one WBApiService.fetchBoxTariffs call with its HTTP       *)
(*             attempts, and updateSpreadsheet calls up to their first     *)
(*             await, for any argument.                                    *)
(*   SpecNorm    one WBApiService.transformToDbFormat call with every      *)
(*             field of the records it makes.                              *)
(*   SpecStore   TariffRepository.upsertTariffs and getTariffsByDate on    *)
(*             the rows of box_tariffs: calls of upsertTariffs one after   *)
(*             another, each with its transaction and its statements, and  *)
(*             getTariffsByDate calls at any moment.                       *)
(*   SpecChunks  the same calls, the last upsertTariffs call explored      *)
(*             having a batch of more than chunkSize rows.                 *)
(*   SpecMetrics  a MetricsCollector on its own: startSync and             *)
(*             completeSync calls past maxHistory, and the three queries.  *)
(*   FairSheets  SpecSheets with weak fairness on the timers and the       *)
(*             database query, for the termination of an invocation.       *)
(*                                                                         *)
(* One action is the code that runs between two awaited completions of the *)
(* Node event loop: promise continuations (microtasks) run to completion   *)
(* before the next timer, signal or I/O callback is served.                *)
(***************************************************************************)
EXTENDS Integers, Sequences, FiniteSets, TLC

\* ---------------------------------------------------------------- bounds
MaxRuns  == 3      \* runSync invocations explored by Spec
MaxSyncs == 2      \* syncTariffs invocations explored by SpecSync
MaxUpserts == 2    \* upsertTariffs calls explored by SpecStore
MaxBegins == 102   \* startSync calls explored by SpecMetrics
MaxFree == 3       \* the first startSync calls whose metric ends in any way

\* ------------------------------------------------------ program constants
MAX_RETRIES == 3   \* API_CONFIG.MAX_RETRIES
maxHistory  == 100 \* MetricsCollector.maxHistory
MAX_WAREHOUSE_NAME_LENGTH == 255
MAX_GEO_NAME_LENGTH == 255
chunkSize == 500           \* upsertTariffs, rows per INSERT statement
SHEETS_MAX_RETRIES == 3    \* SHEETS_CONFIG.MAX_RETRIES
SHEETS_RETRY_DELAY == 2000 \* SHEETS_CONFIG.RETRY_DELAY, milliseconds
MIN_SPREADSHEET_ID_LENGTH == 20 \* validateSpreadsheetId
RETRY_DELAY == 1000        \* API_CONFIG.RETRY_DELAY, milliseconds

\* warehouseName values, as sequences of characters
nameA      == <<"A">>
namePadB   == <<" ", "B">>
nameBlank  == <<" ">>
nameEmpty  == <<>>

\* the warehouseList values the remote API answers with
RawBatches ==
    { <<>>, <<nameA>>, <<nameBlank>>, <<nameA, namePadB>>, <<nameA, nameA>>,
      <<namePadB, nameEmpty>> }

\* spreadsheet ids, as sequences of characters: three of a plausible length
\* and one that validateSpreadsheetId rejects as too short
idA     == [i \in 1..20 |-> "a"]
idB     == [i \in 1..20 |-> "b"]
idC     == [i \in 1..20 |-> "c"]
idShort == <<"x", "y">>

\* the ids GOOGLE_SPREADSHEET_IDS may name
Dests == {idA, idB, idC, idShort}

\* SQL NULL / JavaScript null in a TariffExportRow
Null == "null"

\* TariffExportRow values; "0" is the number zero
exportRowA ==
    [warehouse_name |-> "A", geo_name |-> Null, box_delivery_coef |-> "0",
     box_delivery_base |-> "11,2", box_delivery_liter |-> "",
     box_storage_coef |-> Null, box_storage_base |-> Null,
     box_storage_liter |-> "0,1"]
exportRowB ==
    [warehouse_name |-> "B", geo_name |-> "North", box_delivery_coef |-> Null,
     box_delivery_base |-> Null, box_delivery_liter |-> "3",
     box_storage_coef |-> "0", box_storage_base |-> "5",
     box_storage_liter |-> Null]

\* the rows getTariffsByDate may hand to updateAllSpreadsheets, in its order
ExportBatches == { <<exportRowA>>, <<exportRowA, exportRowB>> }

\* what a sheet holds in A:H before the first export, one entry per row
oldRow == <<"old", "old", "old", "old", "old", "old", "old", "old">>
OldSheet == <<oldRow, oldRow, oldRow, oldRow>>

VARIABLES
    mainPc,          \* position of main(): "setup", "initialSync", "running", "failed"
    serverUp,        \* app.ts `server` is not null
    tasks,           \* SchedulerService.tasks.length (every one a live cron task)
    syncInProgress,  \* SchedulerService.syncInProgress
    runs,            \* every runSync invocation, in start order
    shutdown,        \* position of gracefulShutdown
    poolDestroyed,   \* knex.destroy() has been called
    exited,          \* process.exit() has been called
    lastCall,        \* SchedulerService entry point run by the last step, or "none"
    ticksClear,      \* cron callbacks that found syncInProgress false
    syncs,           \* every syncTariffs invocation, in start order
    metrics,         \* MetricsCollector.metrics (indices into syncs)
    rows,            \* box_tariffs rows of today: their warehouse_name keys
    spreadsheets,    \* spreadsheets table: registered ids
    tariffs,         \* argument of the updateAllSpreadsheets call
    updates,         \* the updateSpreadsheet call of every id of that call
    sheets,          \* range A:H of every spreadsheet, one entry per row
    summary,         \* what updateAllSpreadsheets logged about its results
    fetch,           \* a fetchBoxTariffs call
    publish,         \* updateSpreadsheet calls made on their own, by id
    norm,            \* a transformToDbFormat call: argument and outcome
    boxTariffs,      \* the committed rows of table box_tariffs, in heap order
    trx,             \* the upsertTariffs call in progress, or the last one
    upserts,         \* the upsertTariffs calls that committed, in order
    readout,         \* the last getTariffsByDate call
    collector,       \* a MetricsCollector's `metrics` array
    begun,           \* startSync calls made on it
    open,            \* metrics startSync returned that no completeSync got
    stats            \* the query the last step made on it, and what it returned

schedVars == <<mainPc, serverUp, tasks, syncInProgress, runs, shutdown,
               poolDestroyed, exited, lastCall, ticksClear>>
syncVars  == <<syncs, metrics, rows, spreadsheets>>
sheetVars == <<tariffs, updates, sheets, summary>>
fetchVars == <<fetch, publish>>
normVars  == <<norm>>
storeVars == <<boxTariffs, trx, upserts, readout>>
metricVars == <<collector, begun, open, stats>>
restVars  == <<fetchVars, normVars, storeVars, metricVars>>
vars == <<schedVars, syncVars, sheetVars, restVars>>

\* updateAllSpreadsheets has logged no summary line
NoSummary == [successCount |-> -1, failureCount |-> -1, total |-> -1, failed |-> {}]

\* the message of an error of WBApiService or validateDate: its text, with
\* the date, the HTTP status, the attempt count and the message it embeds
ApiMessage(text, date, status, attempts, wrapped) ==
    [text |-> text, date |-> date, status |-> status, attempts |-> attempts,
     wrapped |-> wrapped]

NoApiError ==
    [name |-> "none", statusCode |-> 0, message |-> ApiMessage("", <<>>, 0, 0, <<>>)]

\* no fetchBoxTariffs call has been made
NoFetch ==
    [pc |-> "idle", date |-> <<>>, attempt |-> 0, status |-> 0,
     lastError |-> NoApiError, delays |-> <<>>, calls |-> 0,
     result |-> <<>>, raised |-> NoApiError]

\* no transformToDbFormat call has been made
NoTransform ==
    [pc |-> "idle", tariffs |-> <<>>, result |-> <<>>,
     error |-> [name |-> "none", message |-> ""]]

\* no upsertTariffs call has been made
NoUpsert ==
    [pc |-> "idle", calls |-> 0, batch |-> <<>>, i |-> 0, staged |-> <<>>,
     before |-> <<>>, raised |-> [name |-> "none", message |-> ""]]

\* no getTariffsByDate call has been made
NoRead ==
    [pc |-> "idle", date |-> <<>>, rows |-> <<>>, snapshot |-> <<>>, at |-> 0,
     raised |-> [name |-> "none", message |-> ""]]

\* the last step made no query
NoStats == [op |-> "none", count |-> 0, list |-> <<>>, num |-> 0, den |-> 1]

Init ==
    /\ mainPc = "setup"
    /\ serverUp = FALSE
    /\ tasks = 0
    /\ syncInProgress = FALSE
    /\ runs = <<>>
    /\ shutdown = "idle"
    /\ poolDestroyed = FALSE
    /\ exited = FALSE
    /\ lastCall = "none"
    /\ ticksClear = 0
    /\ syncs = <<>>
    /\ metrics = <<>>
    /\ rows = {}
    /\ spreadsheets = {}
    /\ tariffs = <<>>
    /\ updates = <<>>
    /\ sheets = [d \in Dests |-> OldSheet]
    /\ summary = NoSummary
    /\ fetch = NoFetch
    /\ publish = <<>>
    /\ norm = NoTransform
    /\ boxTariffs = <<>>
    /\ trx = NoUpsert
    /\ upserts = <<>>
    /\ readout = NoRead
    /\ collector = <<>>
    /\ begun = 0
    /\ open = {}
    /\ stats = NoStats

Terminal == {"Completed", "Failed"}

(***************************************************************************)
(* Spec: process and scheduler                                             *)
(***************************************************************************)

getStatus == [tasksCount |-> tasks, syncInProgress |-> syncInProgress]

InFlight == {r \in 1..Len(runs) : runs[r].pc = "pending"}

\* runSync up to `await tariffSyncService.syncTariffs()`
runSync(src) ==
    /\ Len(runs) < MaxRuns
    /\ syncInProgress' = TRUE
    /\ runs' = Append(runs, [src |-> src, pc |-> "pending"])

\* the finally block of runSync
FinallyLeaky(flag, rejected) == IF rejected THEN flag ELSE FALSE

runSyncFinally(flag, rejected) == FALSE

\* main() after its await of runImmediateSync settled: the inner catch
\* swallows a rejection, then startHourlySync and startHealthCheckServer
MainGivesUp(rejected) ==
    IF rejected
    THEN /\ mainPc' = "failed"
         /\ lastCall' = "none"
         /\ UNCHANGED <<tasks, serverUp>>
    ELSE /\ mainPc' = "running"
         /\ tasks' = tasks + 1
         /\ serverUp' = TRUE
         /\ lastCall' = "start"

mainContinues(rejected) ==
    /\ mainPc' = "running"
    /\ tasks' = tasks + 1
    /\ serverUp' = TRUE
    /\ lastCall' = "start"

\* syncTariffs settled: rest of runSync, then the awaiting caller resumes.
\* runSync rethrows a rejection: main's inner catch logs it, the cron
\* callback lets it go to the unhandledRejection handler, which only logs.
SyncSettles(r, rejected) ==
    /\ ~exited /\ runs[r].pc = "pending"
    /\ runs' = [runs EXCEPT ![r].pc = IF rejected THEN "Failed" ELSE "Completed"]
    /\ syncInProgress' = runSyncFinally(syncInProgress, rejected)
    /\ IF runs[r].src = "main"
       THEN mainContinues(rejected)
       ELSE /\ UNCHANGED <<mainPc, tasks, serverUp>>
            /\ lastCall' = "none"
    /\ UNCHANGED <<shutdown, poolDestroyed, exited, ticksClear>>
    /\ UNCHANGED <<syncVars, sheetVars, restVars>>

\* SchedulerService.stop: every task stopped, this.tasks = []
StopKeepsTasks(n) == n

stopTasks(n) == 0

\* gracefulShutdown from schedulerService.stop() to `await knex.destroy()`
stopAndDestroy ==
    /\ tasks' = stopTasks(tasks)
    /\ poolDestroyed' = TRUE
    /\ lastCall' = "stop"

\* gracefulShutdown up to its first await
gracefulShutdown ==
    IF serverUp
    THEN /\ shutdown' = "serverClose"
         /\ lastCall' = "none"
         /\ UNCHANGED <<tasks, poolDestroyed>>
    ELSE /\ shutdown' = "destroy"
         /\ stopAndDestroy

\* migrate.latest, seed.run and the connection test succeeded; main awaits
\* schedulerService.runImmediateSync()
MainSetupOk ==
    /\ ~exited /\ mainPc = "setup"
    /\ mainPc' = "initialSync"
    /\ runSync("main")
    /\ lastCall' = "runNow"
    /\ UNCHANGED <<serverUp, tasks, shutdown, poolDestroyed, exited, ticksClear>>
    /\ UNCHANGED <<syncVars, sheetVars, restVars>>

\* one of them threw: the outer catch of main calls gracefulShutdown(1)
MainSetupFail ==
    /\ ~exited /\ mainPc = "setup" /\ shutdown = "idle"
    /\ mainPc' = "failed"
    /\ gracefulShutdown
    /\ UNCHANGED <<serverUp, syncInProgress, runs, exited, ticksClear>>
    /\ UNCHANGED <<syncVars, sheetVars, restVars>>

\* SIGTERM, SIGINT or uncaughtException: gracefulShutdown
Signal ==
    /\ ~exited /\ shutdown = "idle"
    /\ gracefulShutdown
    /\ UNCHANGED <<mainPc, serverUp, syncInProgress, runs, exited, ticksClear>>
    /\ UNCHANGED <<syncVars, sheetVars, restVars>>

\* server.close() called back
ShutdownServerClosed ==
    /\ ~exited /\ shutdown = "serverClose"
    /\ shutdown' = "destroy"
    /\ stopAndDestroy
    /\ UNCHANGED <<mainPc, serverUp, syncInProgress, runs, exited, ticksClear>>
    /\ UNCHANGED <<syncVars, sheetVars, restVars>>

\* knex.destroy() resolved; shutdownLogger() awaited
ShutdownDestroyed ==
    /\ ~exited /\ shutdown = "destroy"
    /\ shutdown' = "flush"
    /\ lastCall' = "none"
    /\ UNCHANGED <<mainPc, serverUp, tasks, syncInProgress, runs,
                   poolDestroyed, exited, ticksClear>>
    /\ UNCHANGED <<syncVars, sheetVars, restVars>>

\* shutdownLogger() resolved, or knex.destroy() rejected: finally process.exit
ShutdownExit ==
    /\ ~exited /\ shutdown \in {"destroy", "flush"}
    /\ shutdown' = "exit"
    /\ exited' = TRUE
    /\ lastCall' = "none"
    /\ UNCHANGED <<mainPc, serverUp, tasks, syncInProgress, runs,
                   poolDestroyed, ticksClear>>
    /\ UNCHANGED <<syncVars, sheetVars, restVars>>

\* the guard of the cron callback registered by startHourlySync
TickNeverSkips(flag) == FALSE

tickSkips(flag) == flag

\* a cron task fires
Tick ==
    /\ ~exited /\ tasks > 0
    /\ lastCall' = "tick"
    /\ ticksClear' = IF syncInProgress THEN ticksClear ELSE ticksClear + 1
    /\ IF tickSkips(syncInProgress)
       THEN UNCHANGED <<runs, syncInProgress>>
       ELSE runSync("tick")
    /\ UNCHANGED <<mainPc, serverUp, tasks, shutdown, poolDestroyed, exited>>
    /\ UNCHANGED <<syncVars, sheetVars, restVars>>

\* runImmediateSync called on the exported schedulerService
RunNow ==
    /\ ~exited /\ mainPc # "setup"
    /\ runSync("runNow")
    /\ lastCall' = "runNow"
    /\ UNCHANGED <<mainPc, serverUp, tasks, shutdown, poolDestroyed, exited,
                   ticksClear>>
    /\ UNCHANGED <<syncVars, sheetVars, restVars>>

\* stop called on the exported schedulerService
Stop ==
    /\ ~exited /\ mainPc # "setup"
    /\ tasks' = stopTasks(tasks)
    /\ lastCall' = "stop"
    /\ UNCHANGED <<mainPc, serverUp, syncInProgress, runs, shutdown,
                   poolDestroyed, exited, ticksClear>>
    /\ UNCHANGED <<syncVars, sheetVars, restVars>>

Next ==
    \/ MainSetupOk
    \/ MainSetupFail
    \/ Signal
    \/ ShutdownServerClosed
    \/ ShutdownDestroyed
    \/ ShutdownExit
    \/ Tick
    \/ RunNow
    \/ Stop
    \/ \E r \in 1..Len(runs), rejected \in BOOLEAN : SyncSettles(r, rejected)

Spec == Init /\ [][Next]_vars

(***************************************************************************)
(* Claims about Spec                                                       *)
(***************************************************************************)

TickRuns == {r \in 1..Len(runs) : runs[r].src = "tick"}

\* C1: in every reachable state at most one run (a pending syncTariffs
\* promise) is in flight, whatever the interleaving of ticks and
\* runImmediateSync calls.
AtMostOneRunInFlight == Cardinality(InFlight) <= 1

\* C2: a runImmediateSync call made while syncInProgress is set is skipped:
\* it starts no run.
RunNowWhileBusyIsSkipped ==
    [][(lastCall' = "runNow" /\ syncInProgress) => runs' = runs]_vars

\* C3: the runs started by ticks are exactly as many as the ticks that found
\* the flag clear: a tick that finds the flag set starts no run, then or
\* later.
TickRunsEqualClearTicks == Cardinality(TickRuns) = ticksClear

\* the last step was a tick that was skipped, after an earlier tick ran
SkippedTickWitness ==
    /\ lastCall = "tick"
    /\ Len(runs) > 0 /\ runs[Len(runs)].src # "tick"
    /\ ticksClear > 0

\* C4: the step that starts a run leaves the flag set, and every step in
\* which a run settles, resolved or rejected, leaves the flag false.
FlagSetAtStartClearedAtSettle ==
    [][ /\ Len(runs') > Len(runs) => syncInProgress'
        /\ \A r \in 1..Len(runs) :
              (runs[r].pc = "pending" /\ runs'[r].pc \in Terminal)
                  => ~syncInProgress' ]_vars

\* one run has resolved, one has rejected, and the flag is clear
BothExitPathsWitness ==
    /\ \E r \in 1..Len(runs) : runs[r].pc = "Completed"
    /\ \E r \in 1..Len(runs) : runs[r].pc = "Failed"
    /\ ~syncInProgress

\* a cron task firing now would call runSync
TickWouldRun == ~exited /\ tasks > 0 /\ ~tickSkips(syncInProgress)

\* C5: the step in which a run ends Failed leaves the flag clear, exits
\* nothing, cancels no trigger (after the startup run, main goes on to
\* register it), and a tick of a registered trigger would then start a run.
FailedRunKeepsScheduler ==
    [][ \A r \in 1..Len(runs) :
          (runs[r].pc = "pending" /\ runs'[r].pc = "Failed") =>
              /\ ~syncInProgress'
              /\ ~exited' /\ shutdown' = shutdown
              /\ tasks' >= tasks
              /\ runs[r].src = "main" => (mainPc' = "running" /\ tasks' = tasks + 1)
              /\ tasks' > 0 => TickWouldRun' ]_vars

\* the startup run failed and a later tick started a run
TickRunsAfterFailureWitness ==
    /\ Len(runs) > 1
    /\ runs[1].src = "main" /\ runs[1].pc = "Failed"
    /\ runs[Len(runs)].src = "tick"
    /\ lastCall = "tick"

\* C6: a step that runs stop() leaves no registered trigger (getStatus
\* reports zero tasks) and changes neither a run nor the flag; a tick starts
\* a run only while a trigger is registered.
StopCancelsTriggersOnly ==
    [][ /\ lastCall' = "stop" =>
              /\ tasks' = 0 /\ (getStatus').tasksCount = 0
              /\ runs' = runs
              /\ syncInProgress' = syncInProgress
        /\ lastCall' = "tick" => tasks > 0 ]_vars

\* stop() has just run while a run was in flight
StopDuringRunWitness ==
    /\ lastCall = "stop"
    /\ InFlight # {}
    /\ mainPc = "running"
    /\ getStatus.tasksCount = 0 /\ getStatus.syncInProgress

\* C7: the step that destroys the connection pool is taken only when no run
\* is in flight and the flag is clear.
PoolDestroyedOnlyWhenIdle ==
    [][(poolDestroyed' /\ ~poolDestroyed) =>
           (InFlight = {} /\ ~syncInProgress)]_vars

(***************************************************************************)
(* SpecSync: TariffSyncService.syncTariffs and what it awaits              *)
(***************************************************************************)

\* ---------------------------------------------------------------- errors
NoError == [name |-> "none", message |-> ""]
WBApiError ==
    [name |-> "WBApiError",
     message |-> "WB API Error: Failed to fetch tariffs after 3 attempts: <lastError>"]
ValidationErrorFalsy ==
    [name |-> "ValidationError",
     message |-> "Validation Error: warehouseName must be a non-empty string"]
ValidationErrorBlank ==
    [name |-> "ValidationError",
     message |-> "Validation Error: warehouseName cannot be empty or whitespace only"]
UpsertError ==
    [name |-> "DatabaseError", message |-> "Database Error: Failed to upsert tariffs: <error>"]
ReadError ==
    [name |-> "DatabaseError",
     message |-> "Database Error: Failed to fetch tariffs for date <date>: <error>"]
ConsistencyError ==
    [name |-> "AppError",
     message |-> "No tariffs found in database after insert - data consistency issue"]
IdsError ==
    [name |-> "GoogleSheetsError",
     message |-> "Google Sheets Error: Failed to fetch spreadsheet IDs: <error>"]
AllFailedError ==
    [name |-> "GoogleSheetsError",
     message |-> "Google Sheets Error: All spreadsheet updates failed"]

Undefined == "undefined"

\* ------------------------------------------------------- MetricsCollector
\* `ended`: endTime and duration are set; `completed`: the success argument
\* of every completeSync applied to the metric so far
NewMetricEnded ==
    [fetchedCount |-> 0, savedCount |-> 0, exportedCount |-> 0,
     success |-> FALSE, error |-> Undefined, ended |-> TRUE, completed |-> <<>>]

NewMetric ==
    [fetchedCount |-> 0, savedCount |-> 0, exportedCount |-> 0,
     success |-> FALSE, error |-> Undefined, ended |-> FALSE, completed |-> <<>>]

PushOnly(history, id) == Append(history, id)

\* startSync: push the new metric, shift the oldest when over maxHistory
startSync(history, id) ==
    LET pushed == Append(history, id)
    IN  IF Len(pushed) > maxHistory THEN Tail(pushed) ELSE pushed

completeSync(metric, success, err) ==
    [metric EXCEPT !.ended = TRUE,
                   !.completed = Append(@, success),
                   !.success = success,
                   !.error = IF err # NoError THEN err.message ELSE @]

\* ------------------------------------------------------------ WBApiService
RECURSIVE TrimStart(_)
TrimStart(s) == IF s # <<>> /\ Head(s) = " " THEN TrimStart(Tail(s)) ELSE s

RECURSIVE TrimEnd(_)
TrimEnd(s) ==
    IF s # <<>> /\ s[Len(s)] = " " THEN TrimEnd(SubSeq(s, 1, Len(s) - 1)) ELSE s

trim(s) == TrimEnd(TrimStart(s))

\* validateAndTrim throws on a falsy or whitespace-only value
validateThrows(value) == value = <<>> \/ trim(value) = <<>>

NoTruncation(value) == trim(value)

validateAndTrim(value) ==
    LET trimmed == trim(value)
    IN  IF Len(trimmed) > MAX_WAREHOUSE_NAME_LENGTH
        THEN SubSeq(trimmed, 1, MAX_WAREHOUSE_NAME_LENGTH)
        ELSE trimmed

TransformSkipsBlank(raw) == \E i \in 1..Len(raw) : raw[i] = <<>>

transformThrows(raw) == \E i \in 1..Len(raw) : validateThrows(raw[i])

\* map() stops at the first element whose validation throws
transformError(raw) ==
    LET index == CHOOSE i \in 1..Len(raw) :
                     /\ validateThrows(raw[i])
                     /\ \A j \in 1..(i - 1) : ~validateThrows(raw[j])
    IN  IF raw[index] = <<>> THEN ValidationErrorFalsy ELSE ValidationErrorBlank

\* the warehouse_name of every record, in input order
transformToDbFormat(raw) == [i \in 1..Len(raw) |-> validateAndTrim(raw[i])]

SeqRange(s) == {s[i] : i \in 1..Len(s)}

IsPrefix(s, t) == Len(s) <= Len(t) /\ \A i \in 1..Len(s) : s[i] = t[i]

\* ------------------------------------------------------- TariffRepository
\* INSERT ... ON CONFLICT (date, warehouse_name) DO UPDATE rejects a statement
\* that proposes the same key twice, so only a batch of distinct keys commits
DistinctKeys(s) == \A i, j \in 1..Len(s) : s[i] = s[j] => i = j

\* ------------------------------------------------------ TariffSyncService
NewSync ==
    [pc |-> "fetch", attempt |-> 1, raw |-> <<>>, exportTariffs |-> {},
     pub |-> <<>>, metric |-> NewMetric, raised |-> NoError,
     \* history of the invocation
     calls |-> <<"fetch">>, ok |-> <<>>, cause |-> NoError,
     fetchedLen |-> -1, readLen |-> -1, settles |-> 0]

\* syncTariffs is called: startSync, then fetchBoxTariffs up to its first await
Invoke ==
    /\ Len(syncs) < MaxSyncs
    /\ syncs' = Append(syncs, NewSync)
    /\ metrics' = startSync(metrics, Len(syncs) + 1)
    /\ UNCHANGED <<rows, spreadsheets>>
    /\ UNCHANGED <<schedVars, sheetVars, restVars>>

\* syncTariffs goes on to its next awaited call
Continue(r, sync) == syncs' = [syncs EXCEPT ![r] = sync]

\* the promise of syncTariffs settles; the locals of the call are gone
Settled(r, sync, metric, err) ==
    syncs' = [syncs EXCEPT ![r] =
        [sync EXCEPT !.pc = IF err = NoError THEN "Completed" ELSE "Failed",
                     !.metric = metric, !.raised = err,
                     !.settles = @ + 1,
                     !.attempt = 0, !.raw = <<>>, !.exportTariffs = {},
                     !.pub = <<>>]]

\* the catch block of syncTariffs: record, then rethrow
SyncFailedNoMessage(metric, err) == completeSync(metric, FALSE, NoError)

syncFailed(metric, err) == completeSync(metric, FALSE, err)

\* an awaited call (or transformToDbFormat) threw err
Throw(r, sync, err) ==
    Settled(r, [sync EXCEPT !.cause = err], syncFailed(sync.metric, err), err)

\* completeSync(metric, true) and return
Return(r, sync) ==
    Settled(r, sync, completeSync(sync.metric, TRUE, NoError), NoError)

\* `if (metric.fetchedCount === 0)`
NeverEmpty(n) == FALSE

emptyFetch(n) == n = 0

\* fetchWithTimeout resolved with a warehouseList: fetchBoxTariffs returns
\* it, then syncTariffs up to the first await of upsertTariffs (which returns
\* at once on an empty array, and syncTariffs goes on to getTariffsByDate)
FetchOk(r, raw) ==
    /\ syncs[r].pc = "fetch"
    /\ LET sync == [syncs[r] EXCEPT !.metric.fetchedCount = Len(raw),
                                    !.fetchedLen = Len(raw),
                                    !.ok = Append(@, "fetch")]
       IN  IF emptyFetch(Len(raw))
           THEN Return(r, sync)
           ELSE IF transformThrows(raw)
           THEN Throw(r, sync, transformError(raw))
           ELSE IF Len(transformToDbFormat(raw)) = 0
           THEN Continue(r, [sync EXCEPT !.pc = "readSorted",
                                 !.calls = @ \o <<"upsert", "readSorted">>,
                                 !.ok = Append(@, "upsert")])
           ELSE Continue(r, [sync EXCEPT !.pc = "upsert", !.raw = raw,
                                 !.calls = Append(@, "upsert")])
    /\ UNCHANGED <<metrics, rows, spreadsheets>>
    /\ UNCHANGED <<schedVars, sheetVars, restVars>>

\* fetchWithTimeout threw (timeout, status, shape, network): sleep and retry,
\* or WBApiError after MAX_RETRIES attempts
FetchFail(r) ==
    /\ syncs[r].pc = "fetch"
    /\ IF syncs[r].attempt < MAX_RETRIES
       THEN Continue(r, [syncs[r] EXCEPT !.pc = "fetchSleep"])
       ELSE Throw(r, syncs[r], WBApiError)
    /\ UNCHANGED <<metrics, rows, spreadsheets>>
    /\ UNCHANGED <<schedVars, sheetVars, restVars>>

\* sleep(retryDelay * attempt) elapsed: the next attempt
FetchRetry(r) ==
    /\ syncs[r].pc = "fetchSleep"
    /\ Continue(r, [syncs[r] EXCEPT !.pc = "fetch", !.attempt = @ + 1])
    /\ UNCHANGED <<metrics, rows, spreadsheets>>
    /\ UNCHANGED <<schedVars, sheetVars, restVars>>

\* upsertTariffs: the transaction committed; getTariffsByDate is awaited
UpsertCommit(r) ==
    /\ syncs[r].pc = "upsert"
    /\ LET dbTariffs == transformToDbFormat(syncs[r].raw)
       IN  /\ DistinctKeys(dbTariffs)
           /\ rows' = rows \cup SeqRange(dbTariffs)
           /\ Continue(r, [syncs[r] EXCEPT !.pc = "readSorted",
                               !.raw = <<>>,
                               !.metric.savedCount = Len(dbTariffs),
                               !.calls = Append(@, "readSorted"),
                               !.ok = Append(@, "upsert")])
    /\ UNCHANGED <<metrics, spreadsheets>>
    /\ UNCHANGED <<schedVars, sheetVars, restVars>>

\* a mutation of UpsertFail: the error is swallowed and the run goes on
UpsertFailSwallowed(r) ==
    /\ syncs[r].pc = "upsert"
    /\ Continue(r, [syncs[r] EXCEPT !.pc = "readSorted",
                        !.calls = Append(@, "readSorted")])
    /\ UNCHANGED <<metrics, rows, spreadsheets>>
    /\ UNCHANGED <<schedVars, sheetVars, restVars>>

\* a mutation of UpsertFail: the rows inserted before the failure stay
UpsertFailPartial(r) ==
    /\ syncs[r].pc = "upsert"
    /\ rows' = rows \cup {Head(transformToDbFormat(syncs[r].raw))}
    /\ Throw(r, syncs[r], UpsertError)
    /\ UNCHANGED <<metrics, spreadsheets>>
    /\ UNCHANGED <<schedVars, sheetVars, restVars>>

\* upsertTariffs: a statement failed, rollback, DatabaseError
UpsertFail(r) ==
    /\ syncs[r].pc = "upsert"
    /\ Throw(r, syncs[r], UpsertError)
    /\ UNCHANGED <<metrics, rows, spreadsheets>>
    /\ UNCHANGED <<schedVars, sheetVars, restVars>>

\* `if (exportTariffs.length === 0)`
ReadNeverEmpty(n) == FALSE

readBackEmpty(n) == n = 0

\* getTariffsByDate resolved with the rows the table holds for today;
\* updateAllSpreadsheets awaits getSpreadsheetIds
ReadOk(r) ==
    /\ syncs[r].pc = "readSorted"
    /\ LET sync == [syncs[r] EXCEPT !.ok = Append(@, "readSorted"),
                                    !.readLen = Cardinality(rows)]
       IN  IF readBackEmpty(Cardinality(rows))
           THEN Throw(r, sync, ConsistencyError)
           ELSE Continue(r, [sync EXCEPT !.pc = "getIds",
                                 !.exportTariffs = rows,
                                 !.calls = Append(@, "publishAll")])
    /\ UNCHANGED <<metrics, rows, spreadsheets>>
    /\ UNCHANGED <<schedVars, sheetVars, restVars>>

\* getTariffsByDate threw DatabaseError
ReadFail(r) ==
    /\ syncs[r].pc = "readSorted"
    /\ Throw(r, syncs[r], ReadError)
    /\ UNCHANGED <<metrics, rows, spreadsheets>>
    /\ UNCHANGED <<schedVars, sheetVars, restVars>>

ExportedUncounted(r, sync) ==
    Return(r, [sync EXCEPT !.ok = Append(@, "publishAll")])

\* updateAllSpreadsheets returned: the tail of the try block of syncTariffs
Exported(r, sync) ==
    LET done == [sync EXCEPT !.ok = Append(@, "publishAll"),
                             !.metric.exportedCount = Cardinality(sync.exportTariffs)]
    IN  Return(r, done)

\* updateAllSpreadsheets resolved (what it does is the subject of SpecSheets)
ExportResolves(r) ==
    /\ syncs[r].pc = "getIds"
    /\ Exported(r, syncs[r])
    /\ UNCHANGED <<metrics, rows, spreadsheets>>
    /\ UNCHANGED <<schedVars, sheetVars, restVars>>

\* updateAllSpreadsheets rejected: getSpreadsheetIds threw, or every update failed
ExportRejects(r, err) ==
    /\ syncs[r].pc = "getIds"
    /\ Throw(r, syncs[r], err)
    /\ UNCHANGED <<metrics, rows, spreadsheets>>
    /\ UNCHANGED <<schedVars, sheetVars, restVars>>

\* another client of the database removes today's rows from box_tariffs
RowsVanish ==
    /\ rows # {}
    /\ rows' = {}
    /\ UNCHANGED <<syncs, metrics, spreadsheets>>
    /\ UNCHANGED <<schedVars, sheetVars, restVars>>

NextSync ==
    \/ Invoke
    \/ RowsVanish
    \/ \E r \in 1..Len(syncs), raw \in RawBatches : FetchOk(r, raw)
    \/ \E r \in 1..Len(syncs) : FetchFail(r)
    \/ \E r \in 1..Len(syncs) : FetchRetry(r)
    \/ \E r \in 1..Len(syncs) : UpsertCommit(r)
    \/ \E r \in 1..Len(syncs) : UpsertFail(r)
    \/ \E r \in 1..Len(syncs) : ReadOk(r)
    \/ \E r \in 1..Len(syncs) : ReadFail(r)
    \/ \E r \in 1..Len(syncs) : ExportResolves(r)
    \/ \E r \in 1..Len(syncs), err \in {IdsError, AllFailedError} :
          ExportRejects(r, err)

SpecSync == Init /\ [][NextSync]_vars

(***************************************************************************)
(* Claims about SpecSync                                                   *)
(***************************************************************************)

Steps == <<"fetch", "upsert", "readSorted", "publishAll">>

\* C8: every invocation calls fetch, upsert, readSorted, publishAll in that
\* order, each at most once and only after the previous one succeeded, and
\* settles exactly once, Completed or Failed.
StepsInOrderOneOutcome ==
    \A r \in 1..Len(syncs) :
        LET s == syncs[r]
        IN  /\ IsPrefix(s.calls, Steps)
            /\ IsPrefix(s.ok, s.calls)
            /\ Len(s.calls) <= Len(s.ok) + 1
            /\ s.pc \notin Terminal => (s.settles = 0 /\ Len(s.calls) = Len(s.ok) + 1)
            /\ s.pc \in Terminal => s.settles = 1
            /\ s.pc = "Completed" => (s.raised = NoError /\ s.metric.success)
            /\ s.pc = "Failed" => (s.raised # NoError /\ ~s.metric.success)

\* one invocation went through all four steps, another failed after two
FullRunWitness ==
    /\ \E r \in 1..Len(syncs) :
          syncs[r].pc = "Completed" /\ syncs[r].ok = Steps
    /\ \E r \in 1..Len(syncs) :
          syncs[r].pc = "Failed" /\ syncs[r].calls = <<"fetch", "upsert">>

ZeroMetric ==
    [fetchedCount |-> 0, savedCount |-> 0, exportedCount |-> 0,
     success |-> TRUE, error |-> Undefined, ended |-> TRUE,
     completed |-> <<TRUE>>]

\* C9: an invocation whose fetch returned zero entries is Completed with
\* fetched = saved = exported = 0 and success, raised nothing and called
\* nothing but fetch.
ZeroFetchCompletes ==
    \A r \in 1..Len(syncs) :
        syncs[r].fetchedLen = 0 =>
            /\ syncs[r].pc = "Completed"
            /\ syncs[r].metric = ZeroMetric
            /\ syncs[r].raised = NoError
            /\ syncs[r].calls = <<"fetch">>

\* a fetch returned zero entries while the table was empty, and it still is
ZeroFetchWitness ==
    /\ \E r \in 1..Len(syncs) : syncs[r].fetchedLen = 0
    /\ \A r \in 1..Len(syncs) : "upsert" \notin SeqRange(syncs[r].ok)
    /\ rows = {}

\* C10: an invocation in which a step failed is Failed; its metric is
\* finalized with success = false, the message of the error that step threw
\* and the counts reached before it; that same error is raised to the caller.
FailureRecordedThenRethrown ==
    \A r \in 1..Len(syncs) :
        LET s == syncs[r]
            fetched == IF s.fetchedLen < 0 THEN 0 ELSE s.fetchedLen
            saved == IF "upsert" \in SeqRange(s.ok) THEN s.fetchedLen ELSE 0
        IN  /\ s.cause # NoError => s.pc = "Failed"
            /\ s.pc = "Failed" =>
                  /\ s.cause # NoError
                  /\ s.raised = s.cause
                  /\ s.metric.ended /\ ~s.metric.success
                  /\ s.metric.error = s.cause.message
                  /\ s.metric.fetchedCount = fetched
                  /\ s.metric.savedCount = saved
                  /\ s.metric.exportedCount = 0

\* fetch, normalization, upsert and publishAll failures have all been seen
FailureKindsWitness ==
    /\ \E r \in 1..Len(syncs) :
          /\ syncs[r].pc = "Failed" /\ syncs[r].cause = AllFailedError
          /\ syncs[r].metric.fetchedCount = 2 /\ syncs[r].metric.savedCount = 2
    /\ \E r \in 1..Len(syncs) :
          /\ syncs[r].pc = "Failed"
          /\ syncs[r].cause \in {WBApiError, ValidationErrorBlank, UpsertError}

\* C11: an invocation whose read-back returned zero rows after its upsert
\* saved a nonzero number of rows is Failed with the consistency error; it
\* called readSorted once and never called publishAll.
EmptyReadBackFails ==
    \A r \in 1..Len(syncs) :
        (syncs[r].readLen = 0 /\ "upsert" \in SeqRange(syncs[r].ok)) =>
            /\ syncs[r].pc = "Failed"
            /\ syncs[r].cause = ConsistencyError
            /\ syncs[r].raised = ConsistencyError
            /\ syncs[r].calls = <<"fetch", "upsert", "readSorted">>
            /\ syncs[r].metric.exportedCount = 0

\* two rows were saved, vanished, and the read-back found none
EmptyReadBackWitness ==
    \E r \in 1..Len(syncs) :
        /\ syncs[r].readLen = 0
        /\ syncs[r].metric.savedCount = 2
        /\ syncs[r].ok = <<"fetch", "upsert", "readSorted">>

\* C12: endTime and duration are absent while an invocation runs, and
\* completeSync is applied to its metric exactly once, when it settles: with
\* success = true if it ends Completed, with success = false if it ends Failed.
CompletedExactlyOnce ==
    \A r \in 1..Len(syncs) :
        LET s == syncs[r]
        IN  /\ s.pc \notin Terminal =>
                  (~s.metric.ended /\ s.metric.completed = <<>>)
            /\ s.pc = "Completed" =>
                  (s.metric.ended /\ s.metric.completed = <<TRUE>>)
            /\ s.pc = "Failed" =>
                  (s.metric.ended /\ s.metric.completed = <<FALSE>>)

\* one invocation has failed while another, past its fetch, is still running
RunningBesideFailedWitness ==
    /\ \E r \in 1..Len(syncs) :
          syncs[r].pc = "Failed" /\ syncs[r].metric.completed = <<FALSE>>
    /\ \E r \in 1..Len(syncs) :
          /\ syncs[r].pc = "readSorted"
          /\ syncs[r].metric.savedCount > 0 /\ ~syncs[r].metric.ended

AbortedBeforeCommit(s) == s.pc = "Failed" /\ s.cause \in {WBApiError, UpsertError}

\* C13: the step in which an invocation fails on fetch or on upsert leaves
\* the stored rows as they are; that invocation has committed no upsert and
\* called no publishAll (after a fetch failure, not even upsert); and the
\* stored rows change only in a step that commits an upsert, or when another
\* client removes them.
NoPartialCommit ==
    [][ /\ \A r \in 1..Len(syncs) :
              (syncs[r].pc \notin Terminal /\ AbortedBeforeCommit(syncs'[r])) =>
                  /\ rows' = rows
                  /\ "upsert" \notin SeqRange(syncs'[r].ok)
                  /\ "publishAll" \notin SeqRange(syncs'[r].calls)
                  /\ syncs'[r].metric.savedCount = 0
                  /\ syncs'[r].metric.exportedCount = 0
                  /\ syncs'[r].cause = WBApiError => syncs'[r].calls = <<"fetch">>
        /\ rows' # rows =>
              \/ rows' = {}
              \/ \E r \in 1..Len(syncs) :
                    /\ syncs[r].pc = "upsert"
                    /\ syncs'[r].pc = "readSorted"
                    /\ syncs'[r].ok = <<"fetch", "upsert">> ]_vars

\* an upsert failed after another invocation had stored two rows, which stay
UpsertFailedRowsKeptWitness ==
    /\ Cardinality(rows) = 2
    /\ \E r \in 1..Len(syncs) :
          syncs[r].pc = "Failed" /\ syncs[r].cause = UpsertError
    /\ \E r \in 1..Len(syncs) : "upsert" \in SeqRange(syncs[r].ok)

(***************************************************************************)
(* SpecSheets: the export stage of one invocation of syncTariffs:           *)
(* GoogleSheetsService.updateAllSpreadsheets with every updateSpreadsheet   *)
(* it starts, and the tail of syncTariffs that awaits it                    *)
(***************************************************************************)

\* an error message that names a spreadsheet: its fixed text, the id and
\* attempt count it interpolates (<<>> and 0 when none), and the message of
\* the error it wraps (<<>> when none)
Message(text, spreadsheetId, attempts, wrapped) ==
    [text |-> text, id |-> spreadsheetId, attempts |-> attempts,
     wrapped |-> wrapped]

NoSheetError == [name |-> "none", message |-> Message("", <<>>, 0, <<>>)]

\* ------------------------------------------------------------- validators
validateSpreadsheetIdError(spreadsheetId) ==
    IF spreadsheetId = <<>>
    THEN [name |-> "ValidationError",
          message |-> Message("Validation Error: Spreadsheet ID must be a non-empty string",
                              <<>>, 0, <<>>)]
    ELSE IF Len(trim(spreadsheetId)) = 0
    THEN [name |-> "ValidationError",
          message |-> Message("Validation Error: Spreadsheet ID cannot be empty",
                              <<>>, 0, <<>>)]
    ELSE IF Len(spreadsheetId) < MIN_SPREADSHEET_ID_LENGTH
    THEN [name |-> "ValidationError",
          message |-> Message("Validation Error: Spreadsheet ID seems too short: <id>",
                              spreadsheetId, 0, <<>>)]
    ELSE NoSheetError

\* --------------------------------------------------- GoogleSheetsService
\* the header row (the source has these titles in Russian)
headers ==
    <<"Warehouse", "Region", "Delivery coef", "Delivery (base)",
      "Delivery (liter)", "Storage coef", "Storage (base)", "Storage (liter)">>

\* `v || ""`: null, the empty string and the number zero give ""
orEmpty(v) == IF v \in {Null, "", "0"} THEN "" ELSE v

\* `v ?? ""`: only null gives ""
nullishEmpty(v) == IF v = Null THEN "" ELSE v

sheetRow(t) ==
    <<orEmpty(t.warehouse_name), orEmpty(t.geo_name),
      nullishEmpty(t.box_delivery_coef), orEmpty(t.box_delivery_base),
      orEmpty(t.box_delivery_liter), nullishEmpty(t.box_storage_coef),
      orEmpty(t.box_storage_base), orEmpty(t.box_storage_liter)>>

\* `const values = [headers, ...rows]`
sheetValues(ts) == <<headers>> \o [i \in 1..Len(ts) |-> sheetRow(ts[i])]

\* values.update at A1 with `values`: the cells below them keep what they hold
written(old, values) ==
    values \o SubSeq(old, Len(values) + 1, Len(old))

\* the codes the Sheets API may fail a call with (500: any other failure)
ApiCodes == {404, 403, 500}

\* the catch block of updateSpreadsheetInternal
internalError(spreadsheetId, code) ==
    [name |-> "GoogleSheetsError",
     message |->
        IF code = 404
        THEN Message("Google Sheets Error: Spreadsheet <id> not found or sheet stocks_coefs does not exist",
                     spreadsheetId, 0, <<>>)
        ELSE IF code = 403
        THEN Message("Google Sheets Error: Permission denied for spreadsheet <id>. Ensure service account has editor access",
                     spreadsheetId, 0, <<>>)
        ELSE Message("Google Sheets Error: Failed to update spreadsheet: <error>",
                     <<>>, 0, <<>>)]

\* the error updateSpreadsheet throws after its last attempt
exhaustedError(spreadsheetId, maxRetries, lastError) ==
    [name |-> "GoogleSheetsError",
     message |-> Message("Google Sheets Error: Failed to update spreadsheet <id> after <maxRetries> attempts: <lastError>",
                         spreadsheetId, maxRetries, <<lastError.message>>)]

\* updateSpreadsheet(id) up to its first await
startUpdate(spreadsheetId) ==
    IF validateSpreadsheetIdError(spreadsheetId) # NoSheetError
    THEN [pc |-> "rejected", attempt |-> 0, lastError |-> NoSheetError,
          delays |-> <<>>, reason |-> validateSpreadsheetIdError(spreadsheetId)]
    ELSE [pc |-> "clear", attempt |-> 1, lastError |-> NoSheetError,
          delays |-> <<>>, reason |-> NoSheetError]

\* the status of the promise of an updateSpreadsheet call
status(u) == IF u.pc \in {"fulfilled", "rejected"} THEN u.pc ELSE "pending"

\* results.forEach of updateAllSpreadsheets: the counts and the failures it logs
TallyCountsAll(upd) ==
    [successCount |-> Cardinality(DOMAIN upd),
     failureCount |-> 0,
     total |-> Cardinality(DOMAIN upd),
     failed |-> {}]

tally(upd) ==
    LET rejected == {d \in DOMAIN upd : upd[d].pc = "rejected"}
    IN  [successCount |-> Cardinality(DOMAIN upd \ rejected),
         failureCount |-> Cardinality(rejected),
         total |-> Cardinality(DOMAIN upd),
         failed |-> {[id |-> d, reason |-> upd[d].reason] : d \in rejected}]

\* Promise.allSettled has every result: the tally of updateAllSpreadsheets,
\* its throw `if (failureCount === spreadsheetIds.length)`, then the tail of
\* syncTariffs
AllSettledStrict(r, sync, upd) ==
    /\ summary' = tally(upd)
    /\ IF tally(upd).failureCount > 0
       THEN Throw(r, sync, AllFailedError)
       ELSE Exported(r, sync)

AllSettledSilent(r, sync, upd) ==
    /\ summary' = tally(upd)
    /\ Exported(r, sync)

allSettled(r, sync, upd) ==
    /\ summary' = tally(upd)
    /\ IF tally(upd).failureCount = tally(upd).total
       THEN Throw(r, sync, AllFailedError)
       ELSE Exported(r, sync)

\* a mutation of PublishSettle: the first rejection ends the wait (Promise.all)
PublishSettleFailFast(r, upd) ==
    LET sync == [syncs[r] EXCEPT !.pc = "publish",
                     !.pub = [d \in DOMAIN upd |-> status(upd[d])]]
    IN  /\ updates' = upd
        /\ IF \E d \in DOMAIN upd : status(upd[d]) = "rejected"
           THEN allSettled(r, sync, upd)
           ELSE IF \E d \in DOMAIN upd : status(upd[d]) = "pending"
           THEN Continue(r, sync) /\ UNCHANGED summary
           ELSE allSettled(r, sync, upd)

\* an updateSpreadsheet call has moved on: updateAllSpreadsheets still waits,
\* or it has its last result
PublishSettle(r, upd) ==
    LET sync == [syncs[r] EXCEPT !.pc = "publish",
                     !.pub = [d \in DOMAIN upd |-> status(upd[d])]]
    IN  /\ updates' = upd
        /\ IF \E d \in DOMAIN upd : status(upd[d]) = "pending"
           THEN Continue(r, sync) /\ UNCHANGED summary
           ELSE allSettled(r, sync, upd)

\* seed: the ids of GOOGLE_SPREADSHEET_IDS are inserted into spreadsheets
SeedRun(ids) ==
    /\ syncs = <<>> /\ spreadsheets = {} /\ ids # {}
    /\ spreadsheets' = spreadsheets \cup ids
    /\ UNCHANGED <<syncs, metrics, rows>>
    /\ UNCHANGED <<schedVars, sheetVars, restVars>>

\* an invocation of syncTariffs has read ts back and calls
\* updateAllSpreadsheets(ts), which awaits getSpreadsheetIds
ReachExport(ts) ==
    /\ syncs = <<>>
    /\ syncs' = <<[NewSync EXCEPT !.pc = "getIds",
                      !.exportTariffs = SeqRange(ts),
                      !.metric.fetchedCount = Len(ts),
                      !.metric.savedCount = Len(ts),
                      !.fetchedLen = Len(ts), !.readLen = Len(ts),
                      !.calls = <<"fetch", "upsert", "readSorted", "publishAll">>,
                      !.ok = <<"fetch", "upsert", "readSorted">>]>>
    /\ metrics' = startSync(metrics, 1)
    /\ tariffs' = ts
    /\ UNCHANGED <<rows, spreadsheets, updates, sheets, summary>>
    /\ UNCHANGED <<schedVars, restVars>>

\* `if (spreadsheetIds.length === 0)`
NeverNoSpreadsheets(ids) == FALSE

noSpreadsheets(ids) == ids = {}

\* getSpreadsheetIds resolved: no id, or one updateSpreadsheet call per id,
\* each run up to its first await
IdsOk(r) ==
    /\ syncs[r].pc = "getIds"
    /\ IF noSpreadsheets(spreadsheets)
       THEN Exported(r, syncs[r]) /\ UNCHANGED <<updates, summary>>
       ELSE PublishSettle(r, [d \in spreadsheets |-> startUpdate(d)])
    /\ UNCHANGED <<metrics, rows, spreadsheets, tariffs, sheets>>
    /\ UNCHANGED <<schedVars, restVars>>

\* getSpreadsheetIds threw GoogleSheetsError
IdsFail(r) ==
    /\ syncs[r].pc = "getIds"
    /\ Throw(r, syncs[r], IdsError)
    /\ UNCHANGED <<metrics, rows, spreadsheets>>
    /\ UNCHANGED <<schedVars, sheetVars, restVars>>

\* `if (attempt < this.maxRetries)` and the bound of the for loop
RetryOnce(attempt) == attempt < 1

mayRetry(attempt) == attempt < SHEETS_MAX_RETRIES

\* `const delay = this.retryDelay * attempt`
retryDelay(attempt) == SHEETS_RETRY_DELAY * attempt

\* updateSpreadsheetInternal threw err in attempt updates[d].attempt: the
\* catch block of updateSpreadsheet, then the sleep or the final throw
attemptFailed(r, d, err) ==
    LET u == updates[d]
    IN  IF mayRetry(u.attempt)
        THEN PublishSettle(r, [updates EXCEPT ![d] =
                 [u EXCEPT !.pc = "sleep", !.lastError = err,
                           !.delays = Append(@, retryDelay(u.attempt))]])
        ELSE PublishSettle(r, [updates EXCEPT ![d] =
                 [u EXCEPT !.pc = "rejected", !.lastError = err,
                           !.reason = exhaustedError(d, SHEETS_MAX_RETRIES, err)]])

\* values.clear of range A:H
ClearSkipped(old) == old

cleared(old) == <<>>

\* values.clear resolved; values.update is awaited
ClearOk(r, d) ==
    /\ syncs[r].pc = "publish"
    /\ d \in DOMAIN updates /\ updates[d].pc = "clear"
    /\ sheets' = [sheets EXCEPT ![d] = cleared(@)]
    /\ PublishSettle(r, [updates EXCEPT ![d].pc = "update"])
    /\ UNCHANGED <<metrics, rows, spreadsheets, tariffs>>
    /\ UNCHANGED <<schedVars, restVars>>

\* values.clear rejected with code
ClearFail(r, d, code) ==
    /\ syncs[r].pc = "publish"
    /\ d \in DOMAIN updates /\ updates[d].pc = "clear"
    /\ attemptFailed(r, d, internalError(d, code))
    /\ UNCHANGED <<metrics, rows, spreadsheets, tariffs, sheets>>
    /\ UNCHANGED <<schedVars, restVars>>

\* values.update resolved: updateSpreadsheet returns
UpdateOk(r, d) ==
    /\ syncs[r].pc = "publish"
    /\ d \in DOMAIN updates /\ updates[d].pc = "update"
    /\ sheets' = [sheets EXCEPT ![d] = written(@, sheetValues(tariffs))]
    /\ PublishSettle(r, [updates EXCEPT ![d].pc = "fulfilled"])
    /\ UNCHANGED <<metrics, rows, spreadsheets, tariffs>>
    /\ UNCHANGED <<schedVars, restVars>>

\* values.update rejected with code; the sheet stays cleared
UpdateFail(r, d, code) ==
    /\ syncs[r].pc = "publish"
    /\ d \in DOMAIN updates /\ updates[d].pc = "update"
    /\ attemptFailed(r, d, internalError(d, code))
    /\ UNCHANGED <<metrics, rows, spreadsheets, tariffs, sheets>>
    /\ UNCHANGED <<schedVars, restVars>>

\* sleep(delay) elapsed: the next attempt, up to its values.clear
SleepDone(r, d) ==
    /\ syncs[r].pc = "publish"
    /\ d \in DOMAIN updates /\ updates[d].pc = "sleep"
    /\ PublishSettle(r, [updates EXCEPT ![d].pc = "clear", ![d].attempt = @ + 1])
    /\ UNCHANGED <<metrics, rows, spreadsheets, tariffs, sheets>>
    /\ UNCHANGED <<schedVars, restVars>>

NextSheets ==
    \/ \E ids \in SUBSET Dests : SeedRun(ids)
    \/ \E ts \in ExportBatches : ReachExport(ts)
    \/ \E r \in 1..Len(syncs) : IdsOk(r)
    \/ \E r \in 1..Len(syncs) : IdsFail(r)
    \/ \E r \in 1..Len(syncs), d \in Dests : ClearOk(r, d)
    \/ \E r \in 1..Len(syncs), d \in Dests, code \in ApiCodes : ClearFail(r, d, code)
    \/ \E r \in 1..Len(syncs), d \in Dests : UpdateOk(r, d)
    \/ \E r \in 1..Len(syncs), d \in Dests, code \in ApiCodes : UpdateFail(r, d, code)
    \/ \E r \in 1..Len(syncs), d \in Dests : SleepDone(r, d)

SpecSheets == Init /\ [][NextSheets]_vars

(***************************************************************************)
(* Claims about SpecSheets                                                 *)
(***************************************************************************)

Pending   == {d \in DOMAIN updates : status(updates[d]) = "pending"}
Fulfilled == {d \in DOMAIN updates : updates[d].pc = "fulfilled"}
Rejected  == {d \in DOMAIN updates : updates[d].pc = "rejected"}

\* the invocation has settled and getSpreadsheetIds had not failed
ExportEnded(s) == s.pc \in Terminal /\ s.cause # IdsError

\* C14 as stated: whatever subset of the destinations fails to publish, an
\* invocation that reached the export stage ends Completed with success = true.
AnyExportFailureStillCompletes ==
    \A r \in 1..Len(syncs) :
        ExportEnded(syncs[r]) =>
            (syncs[r].pc = "Completed" /\ syncs[r].metric.success)

\* C14 as amended: a rejected updateSpreadsheet does not end the invocation
\* while another is pending; once all have settled the invocation ends
\* Completed with success = true if at least one was fulfilled (or no
\* spreadsheet is registered), and Failed with the aggregate error if every
\* one was rejected.
ContainedUnlessAllFail ==
    \A r \in 1..Len(syncs) :
        /\ Pending # {} => syncs[r].pc = "publish"
        /\ ExportEnded(syncs[r]) =>
              IF Fulfilled # {} \/ DOMAIN updates = {}
              THEN /\ syncs[r].pc = "Completed"
                   /\ syncs[r].metric.success
                   /\ syncs[r].metric.exportedCount = Len(tariffs)
              ELSE /\ syncs[r].pc = "Failed"
                   /\ syncs[r].cause = AllFailedError
                   /\ ~syncs[r].metric.success

\* two updates were rejected, one after its last attempt, and the third was
\* fulfilled: the invocation is Completed
PartialFailureCompletedWitness ==
    /\ Cardinality(Rejected) = 2 /\ Cardinality(Fulfilled) = 1
    /\ \E d \in Rejected : updates[d].attempt = SHEETS_MAX_RETRIES
    /\ \E r \in 1..Len(syncs) : syncs[r].pc = "Completed"

\* C15: with at least one spreadsheet registered, updateAllSpreadsheets
\* throws the aggregate error exactly when every updateSpreadsheet was
\* rejected, and it has thrown or returned only when none is pending.
AggregateErrorIffAllFailed ==
    \A r \in 1..Len(syncs) :
        DOMAIN updates # {} =>
            /\ (syncs[r].cause = AllFailedError) <=> (Rejected = DOMAIN updates)
            /\ ExportEnded(syncs[r]) => Pending = {}
            /\ summary # NoSummary => Pending = {}
            /\ syncs[r].cause = AllFailedError => syncs[r].raised = AllFailedError

\* all three valid spreadsheets were rejected after their last attempt
AllRejectedWitness ==
    /\ DOMAIN updates = {idA, idB, idC}
    /\ \A d \in DOMAIN updates :
          updates[d].pc = "rejected" /\ updates[d].attempt = SHEETS_MAX_RETRIES
    /\ \E r \in 1..Len(syncs) : syncs[r].cause = AllFailedError

\* C16: when updateAllSpreadsheets has tallied its results and at least one
\* update was fulfilled, it has not thrown; the succeeded count it reports is
\* the number of fulfilled updates, the failed count the number of rejected
\* ones, and it has recorded each rejected id with the error of its update.
PartialFailureTally ==
    /\ summary = NoSummary <=> (Pending # {} \/ DOMAIN updates = {})
    /\ summary # NoSummary =>
          /\ summary.total = Cardinality(DOMAIN updates)
          /\ summary.successCount = Cardinality(Fulfilled)
          /\ summary.failureCount = Cardinality(Rejected)
          /\ {f.id : f \in summary.failed} = Rejected
          /\ \A f \in summary.failed : f.reason = updates[f.id].reason
          /\ \A d \in Rejected : updates[d].reason # NoSheetError
          /\ Fulfilled # {} =>
                \A r \in 1..Len(syncs) :
                    syncs[r].pc = "Completed" /\ syncs[r].raised = NoError

\* three spreadsheets, exactly one rejected (after its last attempt): 2 and 1
TwoOfThreeWitness ==
    /\ summary.total = 3 /\ summary.successCount = 2 /\ summary.failureCount = 1
    /\ \E d \in Rejected : updates[d].attempt = SHEETS_MAX_RETRIES

\* C17: with no spreadsheet registered, updateAllSpreadsheets returns without
\* an error and without starting an update: no sheet is cleared or written,
\* and the invocation ends Completed.
NoSpreadsheetsNoOp ==
    \A r \in 1..Len(syncs) :
        (spreadsheets = {} /\ ExportEnded(syncs[r])) =>
            /\ syncs[r].pc = "Completed" /\ syncs[r].raised = NoError
            /\ syncs[r].metric.success
            /\ DOMAIN updates = {}
            /\ summary = NoSummary
            /\ \A d \in Dests : sheets[d] = OldSheet

\* the export ran with no spreadsheet registered and two rows to export
NoSpreadsheetsWitness ==
    /\ spreadsheets = {} /\ Len(tariffs) = 2
    /\ \E r \in 1..Len(syncs) : syncs[r].pc = "Completed"

\* an update that was rejected by validateSpreadsheetId made no attempt
Exhausted(u) == u.pc = "rejected" /\ u.attempt > 0

\* C18: getSpreadsheetIds' ids all get an updateSpreadsheet call at once; a
\* step moves at most one of them and leaves the others as they are; the
\* invocation goes on only when none is pending; and every update ran its
\* full course whatever the others did: fulfilled, rejected by validation,
\* or rejected after SHEETS_MAX_RETRIES attempts.
UpdatesRunIndependently ==
    [][ /\ \A d \in DOMAIN updates :
              /\ d \in DOMAIN updates'
              /\ updates'[d] # updates[d] =>
                    \A e \in DOMAIN updates \ {d} : updates'[e] = updates[e]
        /\ DOMAIN updates' # {} => DOMAIN updates' = spreadsheets
        /\ \A r \in 1..Len(syncs') :
              (ExportEnded(syncs'[r]) /\ ~ExportEnded(syncs[r])) =>
                  \A d \in DOMAIN updates' :
                      \/ updates'[d].pc = "fulfilled"
                      \/ updates'[d].pc = "rejected" /\ updates'[d].attempt = 0
                      \/ /\ updates'[d].pc = "rejected"
                         /\ updates'[d].attempt = SHEETS_MAX_RETRIES
                         /\ Len(updates'[d].delays) = SHEETS_MAX_RETRIES - 1 ]_vars

\* one update was rejected after its last attempt, another was fulfilled on
\* its last attempt, a third on its first
MixedOutcomesWitness ==
    /\ \E d \in Rejected : updates[d].attempt = SHEETS_MAX_RETRIES
    /\ \E d \in Fulfilled : updates[d].attempt = SHEETS_MAX_RETRIES
    /\ \E d \in Fulfilled : updates[d].attempt = 1
    /\ Pending = {}

\* C19: while an attempt waits for its values.update the sheet is empty, and
\* a sheet whose update was fulfilled holds the header row followed by one
\* row per tariff, in the order of the tariffs, and nothing else.
ReplaceStyleWrite ==
    \A d \in DOMAIN updates :
        /\ updates[d].pc = "update" => sheets[d] = <<>>
        /\ updates[d].pc = "fulfilled" =>
              /\ Len(sheets[d]) = Len(tariffs) + 1
              /\ sheets[d][1] = headers
              /\ \A i \in 1..Len(tariffs) :
                    /\ sheets[d][i + 1][1] = tariffs[i].warehouse_name
                    /\ sheets[d][i + 1] = sheetRow(tariffs[i])

\* a sheet of four old rows was replaced by the header and two rows, on a
\* second or third attempt
ReplacedWitness ==
    \E d \in Fulfilled :
        /\ Len(tariffs) = 2 /\ Len(sheets[d]) = 3
        /\ updates[d].attempt > 1

\* the delays slept after failed attempts 1..n
delaysUpTo(n) == [k \in 1..n |-> SHEETS_RETRY_DELAY * k]

\* C20: an update makes at most SHEETS_MAX_RETRIES attempts and none after a
\* fulfilled one; it has slept SHEETS_RETRY_DELAY * k after each failed
\* attempt k but the last possible one; and after SHEETS_MAX_RETRIES failed
\* attempts it is rejected with an error that carries the spreadsheet id,
\* the attempt count and the message of the last attempt's error.
BoundedRetriesWithBackoff ==
    [][ \A d \in DOMAIN updates' :
          LET u == updates'[d]
          IN  /\ u.attempt <= SHEETS_MAX_RETRIES
              /\ u.pc \in {"clear", "update", "fulfilled"} =>
                    u.delays = delaysUpTo(u.attempt - 1)
              /\ u.pc = "sleep" =>
                    (u.attempt < SHEETS_MAX_RETRIES /\ u.delays = delaysUpTo(u.attempt))
              /\ Exhausted(u) =>
                    /\ u.attempt = SHEETS_MAX_RETRIES
                    /\ u.delays = delaysUpTo(SHEETS_MAX_RETRIES - 1)
                    /\ u.lastError # NoSheetError
                    /\ u.reason.name = "GoogleSheetsError"
                    /\ u.reason.message.id = d
                    /\ u.reason.message.attempts = SHEETS_MAX_RETRIES
                    /\ u.reason.message.wrapped = <<u.lastError.message>>
              /\ (d \in DOMAIN updates /\ updates[d].pc \in {"fulfilled", "rejected"}) =>
                    u = updates[d] ]_vars

\* an update was rejected after three attempts whose last error was a 403,
\* another was fulfilled on its second attempt
ExhaustedWitness ==
    /\ \E d \in Rejected :
          /\ updates[d].attempt = SHEETS_MAX_RETRIES
          /\ updates[d].lastError = internalError(d, 403)
          /\ updates[d].delays = <<2000, 4000>>
    /\ \E d \in Fulfilled : updates[d].attempt = 2 /\ updates[d].delays = <<2000>>

(***************************************************************************)
(* SpecFetch: WBApiService.fetchBoxTariffs and the entry of                *)
(* GoogleSheetsService.updateSpreadsheet                                   *)
(***************************************************************************)
\* `date` arguments, as sequences of characters
date0120     == <<"2", "0", "2", "5", "-", "0", "1", "-", "2", "0">>
date1231     == <<"2", "0", "2", "4", "-", "1", "2", "-", "3", "1">>
dateLeap     == <<"2", "0", "2", "4", "-", "0", "2", "-", "2", "9">>
dateSlashes  == <<"2", "0", "2", "5", "/", "0", "1", "/", "2", "0">>
dateDayFirst == <<"2", "0", "-", "0", "1", "-", "2", "0", "2", "5">>
dateWord     == <<"i", "n", "v", "a", "l", "i", "d">>
dateMonth13  == <<"2", "0", "2", "5", "-", "1", "3", "-", "0", "1">>
dateMonth00  == <<"2", "0", "2", "5", "-", "0", "0", "-", "0", "1">>
dateDay32    == <<"2", "0", "2", "5", "-", "0", "1", "-", "3", "2">>
dateFeb30    == <<"2", "0", "2", "5", "-", "0", "2", "-", "3", "0">>
dateFeb29    == <<"2", "0", "2", "5", "-", "0", "2", "-", "2", "9">>
dateApr31    == <<"2", "0", "2", "5", "-", "0", "4", "-", "3", "1">>
dateEmpty    == <<>>

Dates ==
    {date0120, date1231, dateLeap, dateSlashes, dateDayFirst, dateWord,
     dateMonth13, dateMonth00, dateDay32, dateFeb30, dateFeb29, dateApr31,
     dateEmpty}

\* spreadsheet ids that are empty, blank, and one character too short
idEmpty == <<>>
idBlank == <<" ", " ", " ">>
id19    == [i \in 1..19 |-> "a"]

PublishIds == {idA, idShort, id19, idEmpty, idBlank}

\* response.status values: one ok, two not ok
HttpStatuses == {200, 429, 500}

\* ---------------------------------------------------------- validateDate
decimal == <<"0", "1", "2", "3", "4", "5", "6", "7", "8", "9">>

\* \d
isDigit(c) == \E n \in 1..10 : decimal[n] = c

digit(c) == (CHOOSE n \in 1..10 : decimal[n] = c) - 1

\* VALIDATION.DATE_FORMAT.test(date): /^\d{4}-\d{2}-\d{2}$/
DATE_FORMAT(date) ==
    /\ Len(date) = 10
    /\ \A i \in {1, 2, 3, 4, 6, 7, 9, 10} : isDigit(date[i])
    /\ date[5] = "-" /\ date[8] = "-"

monthOf(date) == 10 * digit(date[6]) + digit(date[7])
dayOf(date)   == 10 * digit(date[9]) + digit(date[10])
yearOf(date)  ==
    1000 * digit(date[1]) + 100 * digit(date[2]) + 10 * digit(date[3]) + digit(date[4])

\* isNaN(new Date(date).getTime()) for a date that matches DATE_FORMAT: the
\* date-only form is a time value unless the month is outside 1..12 or the
\* day outside 1..31; a day past the end of its month rolls over into the
\* next month ("2025-02-30" is 2 March 2025)
dateIsNaN(date) == monthOf(date) \notin 1..12 \/ dayOf(date) \notin 1..31

validateDateError(date) ==
    IF date = <<>>
    THEN [name |-> "ValidationError", statusCode |-> 400,
          message |-> ApiMessage("Validation Error: Date must be a non-empty string",
                                 <<>>, 0, 0, <<>>)]
    ELSE IF ~DATE_FORMAT(date)
    THEN [name |-> "ValidationError", statusCode |-> 400,
          message |-> ApiMessage("Validation Error: Invalid date format: <date>. Expected YYYY-MM-DD",
                                 date, 0, 0, <<>>)]
    ELSE IF dateIsNaN(date)
    THEN [name |-> "ValidationError", statusCode |-> 400,
          message |-> ApiMessage("Validation Error: Invalid date value: <date>",
                                 date, 0, 0, <<>>)]
    ELSE NoApiError

\* ---------------------------------------------------------- WBApiService
\* the errors fetchWithTimeout throws
httpError(code) ==
    [name |-> "WBApiError", statusCode |-> code,
     message |-> ApiMessage("WB API Error: HTTP <status>: <errorText>", <<>>, code, 0, <<>>)]

invalidStructureError ==
    [name |-> "WBApiError", statusCode |-> 500,
     message |-> ApiMessage("WB API Error: Invalid response structure from WB API",
                            <<>>, 0, 0, <<>>)]

timeoutError ==
    [name |-> "WBApiError", statusCode |-> 408,
     message |-> ApiMessage("WB API Error: Request timeout after <REQUEST_TIMEOUT>ms",
                            <<>>, 0, 0, <<>>)]

networkError ==
    [name |-> "WBApiError", statusCode |-> 503,
     message |-> ApiMessage("WB API Error: Network error: <message>", <<>>, 0, 0, <<>>)]

\* the error fetchBoxTariffs throws after its last attempt
fetchExhaustedError(maxRetries, lastError) ==
    [name |-> "WBApiError", statusCode |-> 503,
     message |-> ApiMessage("WB API Error: Failed to fetch tariffs after <maxRetries> attempts: <lastError>",
                            <<>>, 0, maxRetries, <<lastError.message>>)]

\* `if (attempt < this.maxRetries)` and the bound of the for loop
fetchMayRetry(attempt) == attempt < MAX_RETRIES

\* `const delay = this.retryDelay * attempt`
FixedDelay(attempt) == RETRY_DELAY

fetchRetryDelay(attempt) == RETRY_DELAY * attempt

\* fetchWithTimeout threw err in attempt fetch.attempt: the catch block of
\* fetchBoxTariffs, then the sleep or the final throw
fetchAttemptFailed(err) ==
    IF fetchMayRetry(fetch.attempt)
    THEN fetch' = [fetch EXCEPT !.pc = "sleep", !.lastError = err,
                                !.delays = Append(@, fetchRetryDelay(fetch.attempt))]
    ELSE fetch' = [fetch EXCEPT !.pc = "thrown", !.lastError = err,
                                !.raised = fetchExhaustedError(MAX_RETRIES, err)]

\* fetchBoxTariffs(date) up to its first await: validateDate, then the
\* fetch() of the first attempt
fetchBoxTariffs(date) ==
    /\ fetch.pc = "idle"
    /\ fetch' = IF validateDateError(date) # NoApiError
                THEN [fetch EXCEPT !.pc = "thrown", !.date = date,
                                   !.raised = validateDateError(date)]
                ELSE [fetch EXCEPT !.pc = "fetch", !.date = date,
                                   !.attempt = 1, !.calls = 1]
    /\ UNCHANGED <<schedVars, syncVars, sheetVars, publish, normVars, storeVars, metricVars>>

\* fetch() resolved with a response: response.text() or response.json() is
\* awaited
Responded(code) ==
    /\ fetch.pc = "fetch"
    /\ fetch' = [fetch EXCEPT !.status = code,
                              !.pc = IF code \in 200..299 THEN "json" ELSE "text"]
    /\ UNCHANGED <<schedVars, syncVars, sheetVars, publish, normVars, storeVars, metricVars>>

\* the timer aborted fetch()
FetchAborted ==
    /\ fetch.pc = "fetch"
    /\ fetchAttemptFailed(timeoutError)
    /\ UNCHANGED <<schedVars, syncVars, sheetVars, publish, normVars, storeVars, metricVars>>

\* fetch() rejected with another error
FetchRejected ==
    /\ fetch.pc = "fetch"
    /\ fetchAttemptFailed(networkError)
    /\ UNCHANGED <<schedVars, syncVars, sheetVars, publish, normVars, storeVars, metricVars>>

\* response.text() resolved: `throw new WBApiError(..., response.status)`
TextResolved ==
    /\ fetch.pc = "text"
    /\ fetchAttemptFailed(httpError(fetch.status))
    /\ UNCHANGED <<schedVars, syncVars, sheetVars, publish, normVars, storeVars, metricVars>>

\* response.text() or response.json() rejected: the body could not be read
\* or is not JSON
BodyRejected ==
    /\ fetch.pc \in {"text", "json"}
    /\ fetchAttemptFailed(networkError)
    /\ UNCHANGED <<schedVars, syncVars, sheetVars, publish, normVars, storeVars, metricVars>>

\* response.json() resolved with a body that has response.data.warehouseList
JsonResolved(warehouseList) ==
    /\ fetch.pc = "json"
    /\ fetch' = [fetch EXCEPT !.pc = "returned", !.result = warehouseList]
    /\ UNCHANGED <<schedVars, syncVars, sheetVars, publish, normVars, storeVars, metricVars>>

\* response.json() resolved with a body of another shape
JsonMalformed ==
    /\ fetch.pc = "json"
    /\ fetchAttemptFailed(invalidStructureError)
    /\ UNCHANGED <<schedVars, syncVars, sheetVars, publish, normVars, storeVars, metricVars>>

\* sleep(delay) elapsed: the next attempt, up to its fetch()
FetchSleepDone ==
    /\ fetch.pc = "sleep"
    /\ fetch' = [fetch EXCEPT !.pc = "fetch", !.attempt = @ + 1,
                              !.calls = @ + 1, !.status = 0]
    /\ UNCHANGED <<schedVars, syncVars, sheetVars, publish, normVars, storeVars, metricVars>>

\* updateSpreadsheet(spreadsheetId, tariffs) up to its first await
updateSpreadsheet(spreadsheetId) ==
    /\ spreadsheetId \notin DOMAIN publish
    /\ publish' = [d \in DOMAIN publish \cup {spreadsheetId} |->
                      IF d = spreadsheetId THEN startUpdate(d) ELSE publish[d]]
    /\ UNCHANGED <<schedVars, syncVars, sheetVars, fetch, normVars, storeVars, metricVars>>

NextFetch ==
    \/ \E date \in Dates : fetchBoxTariffs(date)
    \/ \E code \in HttpStatuses : Responded(code)
    \/ FetchAborted
    \/ FetchRejected
    \/ TextResolved
    \/ BodyRejected
    \/ \E warehouseList \in RawBatches : JsonResolved(warehouseList)
    \/ JsonMalformed
    \/ FetchSleepDone
    \/ \E id \in PublishIds : updateSpreadsheet(id)

SpecFetch == Init /\ [][NextFetch]_vars

(***************************************************************************)
(* Claims about SpecFetch                                                  *)
(***************************************************************************)
\* the delays slept after failed attempts 1..n of a fetchBoxTariffs call
fetchDelaysUpTo(n) == [k \in 1..n |-> RETRY_DELAY * k]

\* the call has failed in every one of its attempts
FetchExhausted == fetch.pc = "thrown" /\ fetch.attempt > 0

ExhaustedErrorCarriesRemoteStatus ==
    FetchExhausted =>
        /\ fetch.raised.message.wrapped = <<fetch.lastError.message>>
        /\ fetch.lastError = httpError(fetch.status) =>
              fetch.raised.statusCode = fetch.status

\* days of the month of a calendar date
daysInMonth(year, month) ==
    IF month \in {4, 6, 9, 11} THEN 30
    ELSE IF month # 2 THEN 31
    ELSE IF year % 4 = 0 /\ (year % 100 # 0 \/ year % 400 = 0) THEN 29
    ELSE 28

\* date is a calendar day written YYYY-MM-DD
IsCalendarDay(date) ==
    /\ DATE_FORMAT(date)
    /\ monthOf(date) \in 1..12
    /\ dayOf(date) \in 1..daysInMonth(yearOf(date), monthOf(date))

\* C23: a fetchBoxTariffs call whose date is not a calendar day written
\* YYYY-MM-DD throws a ValidationError having made no HTTP call and no
\* sleep, and an updateSpreadsheet call whose id is empty, blank or shorter
\* than 20 characters is rejected with a ValidationError having made no
\* attempt (no clear, no write) and no sleep.
ValidationFailsFast ==
    /\ (fetch.pc # "idle" /\ ~IsCalendarDay(fetch.date)) =>
          /\ fetch.pc = "thrown"
          /\ fetch.raised.name = "ValidationError"
          /\ fetch.calls = 0 /\ fetch.attempt = 0 /\ fetch.delays = <<>>
    /\ \A d \in DOMAIN publish :
          (Len(trim(d)) = 0 \/ Len(d) < 20) =>
              /\ publish[d].pc = "rejected"
              /\ publish[d].reason.name = "ValidationError"
              /\ publish[d].attempt = 0 /\ publish[d].delays = <<>>

(***************************************************************************)
(* SpecNorm: WBApiService.transformToDbFormat, field by field              *)
(***************************************************************************)
\* warehouseName values at and past MAX_WAREHOUSE_NAME_LENGTH
name255    == [i \in 1..255 |-> "a"]
name256    == [i \in 1..256 |-> "b"]
namePad300 == <<" ">> \o [i \in 1..300 |-> "c"] \o <<" ">>
nameGap255 == [i \in 1..254 |-> "d"] \o <<" ", "e">>

NormNames == {nameA, namePadB, nameBlank, nameEmpty, name255, name256, namePad300, nameGap255}

\* geoName values
GeoNames == {<<>>, <<"G">>, nameBlank, name256}

\* values of the base and liter fields
RawValues == {<<"-">>, <<>>, <<"4", "8">>, <<" ", "1", "1", ",", "2", " ">>, <<" ">>}

\* values of the coefficient fields
RawCoefs ==
    {<<"-">>, <<>>, <<"3">>, <<"1", "2", "a", "b", "c">>, <<"a", "b", "c">>, <<" ", "7">>, <<"-", "5">>, <<"1", ".", "5">>, <<"0">>, <<" ">>}

\* the string-valued and the coefficient fields: <<field of WBWarehouseTariff,
\* field of BoxTariff>>
ValueFields ==
    { <<"boxDeliveryBase", "box_delivery_base">>,
      <<"boxDeliveryLiter", "box_delivery_liter">>,
      <<"boxDeliveryMarketplaceBase", "box_delivery_marketplace_base">>,
      <<"boxDeliveryMarketplaceLiter", "box_delivery_marketplace_liter">>,
      <<"boxStorageBase", "box_storage_base">>,
      <<"boxStorageLiter", "box_storage_liter">> }

CoefFields ==
    { <<"boxDeliveryCoefExpr", "box_delivery_coef">>,
      <<"boxDeliveryMarketplaceCoefExpr", "box_delivery_marketplace_coef">>,
      <<"boxStorageCoefExpr", "box_storage_coef">> }

\* an entry of warehouseList with a value in every field
baseTariff ==
    [warehouseName |-> <<"W">>, geoName |-> <<"G">>,
     boxDeliveryBase |-> <<"4", "8">>, boxDeliveryLiter |-> <<"1", "1", ",", "2">>,
     boxDeliveryCoefExpr |-> <<"1", "6", "0">>,
     boxDeliveryMarketplaceBase |-> <<"4", "0">>, boxDeliveryMarketplaceLiter |-> <<"1", "1">>,
     boxDeliveryMarketplaceCoefExpr |-> <<"1", "2", "5">>,
     boxStorageBase |-> <<"0", ",", "1">>, boxStorageLiter |-> <<"0", ",", "1">>,
     boxStorageCoefExpr |-> <<"1", "4", "5">>]

\* entries: baseTariff with any name and region, and baseTariff with any
\* value in one string-valued field and any value in one coefficient field
RawTariffs ==
    { [baseTariff EXCEPT !.warehouseName = n, !.geoName = g] :
        n \in NormNames, g \in GeoNames }
    \cup
    { [baseTariff EXCEPT ![vf[1]] = v, ![cf[1]] = c] :
        vf \in ValueFields, v \in RawValues, cf \in CoefFields, c \in RawCoefs }

\* two entries that differ in their warehouseName only: in leading space,
\* past character 255, in a letter, and not at all
name257 == [i \in 1..257 |-> "b"]

NamePairLists ==
    { <<[baseTariff EXCEPT !.warehouseName = p[1]],
        [baseTariff EXCEPT !.warehouseName = p[2]]>> :
        p \in { <<<<"B">>, namePadB>>, <<name256, name257>>,
                <<nameA, <<"B">>>>, <<nameA, nameA>> } }

\* `tariffs` arguments: no entry, one entry, an entry after baseTariff, and
\* the pairs above
TariffLists ==
    {<<>>} \cup {<<t>> : t \in RawTariffs} \cup {<<baseTariff, t>> : t \in RawTariffs}
    \cup NamePairLists

\* string | null and number | null
NullString == [null |-> TRUE, value |-> <<>>]
NullNumber == [null |-> TRUE, value |-> 0]
Some(v)    == [null |-> FALSE, value |-> v]

\* parseValue
ParseValueTrimOnly(value) == Some(trim(value))

parseValue(value) ==
    IF value = <<>> \/ value = <<"-">> THEN NullString ELSE Some(trim(value))

\* the decimal digits s starts with
RECURSIVE digitPrefix(_)
digitPrefix(s) ==
    IF s # <<>> /\ isDigit(Head(s)) THEN <<Head(s)>> \o digitPrefix(Tail(s)) ELSE <<>>

RECURSIVE decimalValue(_)
decimalValue(s) ==
    IF s = <<>> THEN 0 ELSE 10 * decimalValue(SubSeq(s, 1, Len(s) - 1)) + digit(s[Len(s)])

NaN == [nan |-> TRUE, value |-> 0]

\* parseInt(value, 10): leading white space is skipped, then a sign is read,
\* then the longest run of decimal digits; whatever follows is ignored, and
\* the result is NaN when there is no digit
parseInt(value) ==
    LET s      == TrimStart(value)
        signed == s # <<>> /\ Head(s) \in {"+", "-"}
        digits == digitPrefix(IF signed THEN Tail(s) ELSE s)
    IN  IF digits = <<>> THEN NaN
        ELSE [nan |-> FALSE,
              value |-> IF signed /\ Head(s) = "-" THEN -decimalValue(digits)
                        ELSE decimalValue(digits)]

\* parseCoefficient
parseCoefficient(value) ==
    IF value = <<>> \/ value = <<"-">> THEN NullNumber
    ELSE IF parseInt(value).nan THEN NullNumber
    ELSE Some(parseInt(value).value)

\* validateAndTrim(tariff.geoName, "geoName", MAX_GEO_NAME_LENGTH)
validateAndTrimGeo(value) ==
    LET trimmed == trim(value)
    IN  IF Len(trimmed) > MAX_GEO_NAME_LENGTH
        THEN SubSeq(trimmed, 1, MAX_GEO_NAME_LENGTH)
        ELSE trimmed

GeoNameErrorBlank ==
    [name |-> "ValidationError",
     message |-> "Validation Error: geoName cannot be empty or whitespace only"]

\* the error the map callback throws for an entry, NoError if it returns
tariffError(tariff) ==
    IF tariff.warehouseName = <<>> THEN ValidationErrorFalsy
    ELSE IF trim(tariff.warehouseName) = <<>> THEN ValidationErrorBlank
    ELSE IF tariff.geoName # <<>> /\ trim(tariff.geoName) = <<>> THEN GeoNameErrorBlank
    ELSE NoError

\* the record the map callback returns for an entry
toBoxTariff(tariff, date) ==
    [date |-> date,
     warehouse_name |-> validateAndTrim(tariff.warehouseName),
     geo_name |-> IF tariff.geoName # <<>>
                  THEN Some(validateAndTrimGeo(tariff.geoName)) ELSE NullString,
     box_delivery_base |-> parseValue(tariff.boxDeliveryBase),
     box_delivery_liter |-> parseValue(tariff.boxDeliveryLiter),
     box_delivery_coef |-> parseCoefficient(tariff.boxDeliveryCoefExpr),
     box_delivery_marketplace_base |-> parseValue(tariff.boxDeliveryMarketplaceBase),
     box_delivery_marketplace_liter |-> parseValue(tariff.boxDeliveryMarketplaceLiter),
     box_delivery_marketplace_coef |-> parseCoefficient(tariff.boxDeliveryMarketplaceCoefExpr),
     box_storage_base |-> parseValue(tariff.boxStorageBase),
     box_storage_liter |-> parseValue(tariff.boxStorageLiter),
     box_storage_coef |-> parseCoefficient(tariff.boxStorageCoefExpr)]

\* transformToDbFormat(tariffs, date): map() rethrows the error of the first
\* entry whose callback throws
Transform(warehouseList, date) ==
    /\ norm.pc = "idle"
    /\ norm' =
          IF \E i \in 1..Len(warehouseList) : tariffError(warehouseList[i]) # NoError
          THEN LET index == CHOOSE i \in 1..Len(warehouseList) :
                                /\ tariffError(warehouseList[i]) # NoError
                                /\ \A j \in 1..(i - 1) : tariffError(warehouseList[j]) = NoError
               IN  [pc |-> "thrown", tariffs |-> warehouseList, result |-> <<>>,
                    error |-> tariffError(warehouseList[index])]
          ELSE [pc |-> "returned", tariffs |-> warehouseList,
                result |-> [i \in 1..Len(warehouseList) |-> toBoxTariff(warehouseList[i], date)],
                error |-> NoError]
    /\ UNCHANGED <<schedVars, syncVars, sheetVars, fetchVars, storeVars, metricVars>>

NextNorm == \E warehouseList \in TariffLists : Transform(warehouseList, date0120)

SpecNorm == Init /\ [][NextNorm]_vars

(***************************************************************************)
(* Claims about SpecNorm                                                   *)
(***************************************************************************)
\* the sentinel values of a field of the remote data
Sentinels == {<<"-">>, <<>>}

\* C24: in every record transformToDbFormat returns, each of the six
\* string-valued fields and the three coefficient fields whose source value
\* is "-" or empty is null: not zero, not the empty string, not "-".
SentinelYieldsNull ==
    norm.pc = "returned" =>
        \A i \in 1..Len(norm.tariffs) :
            /\ \A f \in ValueFields :
                  norm.tariffs[i][f[1]] \in Sentinels =>
                      norm.result[i][f[2]] = NullString
            /\ \A f \in CoefFields :
                  norm.tariffs[i][f[1]] \in Sentinels =>
                      norm.result[i][f[2]] = NullNumber

\* a returned record made from "-" in a string-valued field and "" in a
\* coefficient field
SentinelFieldsWitness ==
    /\ norm.pc = "returned"
    /\ \E i \in 1..Len(norm.tariffs) :
          /\ norm.tariffs[i].boxStorageLiter = <<"-">>
          /\ norm.tariffs[i].boxDeliveryMarketplaceCoefExpr = <<>>
          /\ norm.result[i].box_storage_liter = NullString
          /\ norm.result[i].box_delivery_marketplace_coef = NullNumber

\* value is written as a number: an optional sign, digits, and optionally a
\* point and more digits, with white space around it at most
IsNumber(value) ==
    LET s     == trim(value)
        body  == IF s # <<>> /\ Head(s) \in {"+", "-"} THEN Tail(s) ELSE s
        whole == digitPrefix(body)
        rest  == SubSeq(body, Len(whole) + 1, Len(body))
    IN  /\ whole # <<>>
        /\ \/ rest = <<>>
           \/ /\ Head(rest) = "." /\ Len(rest) > 1
              /\ digitPrefix(Tail(rest)) = Tail(rest)

\* the entry has a name and a region that validateAndTrim accepts
NamesAccepted(tariff) ==
    /\ trim(tariff.warehouseName) # <<>>
    /\ tariff.geoName = <<>> \/ trim(tariff.geoName) # <<>>

\* C25: a coefficient field whose source value is neither a sentinel nor a
\* number (a number followed by other characters included) is null in the
\* record, and no value of a coefficient field makes the call throw.
CoefficientOnlyFromNumbers ==
    /\ norm.pc = "returned" =>
          \A i \in 1..Len(norm.tariffs) : \A f \in CoefFields :
              (norm.tariffs[i][f[1]] \notin Sentinels /\ ~IsNumber(norm.tariffs[i][f[1]])) =>
                  norm.result[i][f[2]] = NullNumber
    /\ (norm.pc # "idle" /\ \A i \in 1..Len(norm.tariffs) : NamesAccepted(norm.tariffs[i])) =>
          norm.pc = "returned"

\* C26: transformToDbFormat returns one record per entry; the name of each
\* is the trimmed source name, cut to its first MAX_WAREHOUSE_NAME_LENGTH
\* characters when longer, so it is never empty and never longer than that;
\* and the call throws only for an entry with a blank name or region, never
\* for a long one.
NamesTruncatedNotDropped ==
    /\ norm.pc = "returned" =>
          /\ Len(norm.result) = Len(norm.tariffs)
          /\ \A i \in 1..Len(norm.tariffs) :
                LET name    == norm.result[i].warehouse_name
                    trimmed == trim(norm.tariffs[i].warehouseName)
                IN  /\ Len(name) \in 1..MAX_WAREHOUSE_NAME_LENGTH
                    /\ Len(trimmed) > MAX_WAREHOUSE_NAME_LENGTH =>
                          name = SubSeq(trimmed, 1, MAX_WAREHOUSE_NAME_LENGTH)
                    /\ Len(trimmed) <= MAX_WAREHOUSE_NAME_LENGTH => name = trimmed
    /\ norm.pc = "thrown" =>
          \E i \in 1..Len(norm.tariffs) : ~NamesAccepted(norm.tariffs[i])

\* a name of 300 characters between blanks came out as its first 255, in
\* the second record of two
TruncatedNameWitness ==
    /\ norm.pc = "returned"
    /\ Len(norm.result) = 2
    /\ norm.tariffs[2].warehouseName = namePad300
    /\ norm.result[2].warehouse_name = [i \in 1..255 |-> "c"]

(***************************************************************************)
(* SpecStore: TariffRepository.upsertTariffs and getTariffsByDate          *)
(***************************************************************************)
\* entries of warehouseList: A with coefficient "-", B with "3", A again
\* with a coefficient and no region, C with "3", AB with "-"
rawA  == [baseTariff EXCEPT !.warehouseName = <<"A">>, !.boxDeliveryCoefExpr = <<"-">>]
rawB  == [baseTariff EXCEPT !.warehouseName = <<"B">>, !.boxDeliveryCoefExpr = <<"3">>]
rawA2 ==
    [baseTariff EXCEPT !.warehouseName = <<" ", "A">>, !.geoName = <<>>,
                       !.boxDeliveryCoefExpr = <<"3">>, !.boxDeliveryBase = <<"-">>,
                       !.boxStorageCoefExpr = <<>>]
rawC  == [baseTariff EXCEPT !.warehouseName = <<"C">>, !.boxDeliveryCoefExpr = <<"3">>]
rawAB == [baseTariff EXCEPT !.warehouseName = <<"A", "B">>, !.boxDeliveryCoefExpr = <<"-">>]

\* `dbTariffs` of syncTariffs
dbTariffs(warehouseList, date) ==
    [i \in 1..Len(warehouseList) |-> toBoxTariff(warehouseList[i], date)]

\* arguments of upsertTariffs
StoreBatches ==
    { dbTariffs(<<rawA, rawB>>, date0120),
      dbTariffs(<<rawA2>>, date0120),
      dbTariffs(<<rawAB, rawC>>, date0120),
      dbTariffs(<<rawA, rawA2>>, date0120),
      dbTariffs(<<rawB>>, date1231),
      <<>> }

\* three decimal digits
numeral(n) ==
    <<decimal[(n \div 100) + 1], decimal[((n \div 10) % 10) + 1], decimal[(n % 10) + 1]>>

\* entries named 001 .. n
numbered(n) == [i \in 1..n |-> [baseTariff EXCEPT !.warehouseName = numeral(i)]]

\* batches of chunkSize and of chunkSize + 1 rows; the first chunk of the
\* second holds A, B and 001 .. 498, its second chunk holds 499
ChunkBatches ==
    { dbTariffs(numbered(chunkSize), date0120),
      dbTariffs(<<rawA2, rawB>> \o numbered(chunkSize - 1), date0120) }

\* arguments of getTariffsByDate
StoreDates == {date0120, date1231}

\* the unique constraint of box_tariffs
key(r) == <<r.date, r.warehouse_name>>

\* `{...t, updated_at: now}`
withTimestamp(t, now) ==
    [date |-> t.date, warehouse_name |-> t.warehouse_name, geo_name |-> t.geo_name,
     box_delivery_base |-> t.box_delivery_base,
     box_delivery_liter |-> t.box_delivery_liter,
     box_delivery_coef |-> t.box_delivery_coef,
     box_delivery_marketplace_base |-> t.box_delivery_marketplace_base,
     box_delivery_marketplace_liter |-> t.box_delivery_marketplace_liter,
     box_delivery_marketplace_coef |-> t.box_delivery_marketplace_coef,
     box_storage_base |-> t.box_storage_base,
     box_storage_liter |-> t.box_storage_liter,
     box_storage_coef |-> t.box_storage_coef,
     updated_at |-> now]

\* the row INSERT makes of a proposed record: created_at takes its default
insertedRow(c, now) ==
    [date |-> c.date, warehouse_name |-> c.warehouse_name, geo_name |-> c.geo_name,
     box_delivery_base |-> c.box_delivery_base,
     box_delivery_liter |-> c.box_delivery_liter,
     box_delivery_coef |-> c.box_delivery_coef,
     box_delivery_marketplace_base |-> c.box_delivery_marketplace_base,
     box_delivery_marketplace_liter |-> c.box_delivery_marketplace_liter,
     box_delivery_marketplace_coef |-> c.box_delivery_marketplace_coef,
     box_storage_base |-> c.box_storage_base,
     box_storage_liter |-> c.box_storage_liter,
     box_storage_coef |-> c.box_storage_coef,
     created_at |-> now, updated_at |-> c.updated_at]

\* `.merge({...})`: the row DO UPDATE makes of the existing row and the
\* proposed record (EXCLUDED)
MergeKeepsNonNull(old, c) ==
    [old EXCEPT
       !.geo_name = IF c.geo_name.null THEN @ ELSE c.geo_name,
       !.box_delivery_base = IF c.box_delivery_base.null THEN @ ELSE c.box_delivery_base,
       !.box_delivery_liter = IF c.box_delivery_liter.null THEN @ ELSE c.box_delivery_liter,
       !.box_delivery_coef = IF c.box_delivery_coef.null THEN @ ELSE c.box_delivery_coef,
       !.box_delivery_marketplace_base = c.box_delivery_marketplace_base,
       !.box_delivery_marketplace_liter = c.box_delivery_marketplace_liter,
       !.box_delivery_marketplace_coef = c.box_delivery_marketplace_coef,
       !.box_storage_base = c.box_storage_base,
       !.box_storage_liter = c.box_storage_liter,
       !.box_storage_coef = IF c.box_storage_coef.null THEN @ ELSE c.box_storage_coef,
       !.updated_at = c.updated_at]

merge(old, c) ==
    [old EXCEPT
       !.geo_name = c.geo_name,
       !.box_delivery_base = c.box_delivery_base,
       !.box_delivery_liter = c.box_delivery_liter,
       !.box_delivery_coef = c.box_delivery_coef,
       !.box_delivery_marketplace_base = c.box_delivery_marketplace_base,
       !.box_delivery_marketplace_liter = c.box_delivery_marketplace_liter,
       !.box_delivery_marketplace_coef = c.box_delivery_marketplace_coef,
       !.box_storage_base = c.box_storage_base,
       !.box_storage_liter = c.box_storage_liter,
       !.box_storage_coef = c.box_storage_coef,
       !.updated_at = c.updated_at]

\* `insert(chunk).onConflict(["date", "warehouse_name"]).merge(...)` on the
\* rows tbl, for a chunk that proposes every key once
ReplaceDate(tbl, chunk, now) ==
    LET otherDate(r) == \A i \in 1..Len(chunk) : r.date # chunk[i].date
    IN  SelectSeq(tbl, otherDate) \o [k \in 1..Len(chunk) |-> insertedRow(chunk[k], now)]

insertOnConflict(tbl, chunk, now) ==
    LET proposed == {chunk[k] : k \in 1..Len(chunk)}
        keys     == {key(c) : c \in proposed}
        stored   == {key(tbl[k]) : k \in 1..Len(tbl)}
        fresh(c) == key(c) \notin stored
        inserted == SelectSeq(chunk, fresh)
    IN  [k \in 1..Len(tbl) |->
            IF key(tbl[k]) \in keys
            THEN merge(tbl[k], CHOOSE c \in proposed : key(c) = key(tbl[k]))
            ELSE tbl[k]]
        \o [k \in 1..Len(inserted) |-> insertedRow(inserted[k], now)]

\* the statement fails when its rows propose a key twice ("ON CONFLICT DO
\* UPDATE command cannot affect row a second time")
proposesOnce(chunk) ==
    Cardinality({key(chunk[k]) : k \in 1..Len(chunk)}) = Len(chunk)

\* the rows other sessions see after a statement of an open transaction has
\* changed tbl into staged
DirtyRead(tbl, staged) == staged

visible(tbl, staged) == tbl

\* `tariffsWithTimestamp.slice(i, i + chunkSize)`
slice(batch, i) ==
    SubSeq(batch, i + 1, IF i + chunkSize < Len(batch) THEN i + chunkSize ELSE Len(batch))

\* the error knex.transaction() rejects with
AcquireError == [name |-> "KnexTimeoutError", message |-> "<error>"]

\* upsertTariffs(tariffs) up to its first await: the empty batch returns,
\* any other waits for knex.transaction()
upsertTariffs(batch) ==
    /\ trx.pc \in {"idle", "returned", "thrown"}
    /\ trx.calls < MaxUpserts
    /\ trx' = IF Len(batch) = 0
              THEN [NoUpsert EXCEPT !.pc = "returned", !.calls = trx.calls + 1,
                                    !.before = boxTariffs]
              ELSE [NoUpsert EXCEPT
                      !.pc = "begin", !.calls = trx.calls + 1,
                      !.before = boxTariffs,
                      !.batch = [k \in 1..Len(batch) |->
                                    withTimestamp(batch[k], trx.calls + 1)]]
    /\ UNCHANGED <<boxTariffs, upserts, readout>>
    /\ UNCHANGED <<schedVars, syncVars, sheetVars, fetchVars, normVars, metricVars>>

\* knex.transaction() resolved: the first INSERT is awaited
BeginOk ==
    /\ trx.pc = "begin"
    /\ trx' = [trx EXCEPT !.pc = "chunk", !.staged = boxTariffs]
    /\ UNCHANGED <<boxTariffs, upserts, readout>>
    /\ UNCHANGED <<schedVars, syncVars, sheetVars, fetchVars, normVars, metricVars>>

\* knex.transaction() rejected: upsertTariffs rejects with that error
BeginFail ==
    /\ trx.pc = "begin"
    /\ trx' = [trx EXCEPT !.pc = "thrown", !.raised = AcquireError]
    /\ UNCHANGED <<boxTariffs, upserts, readout>>
    /\ UNCHANGED <<schedVars, syncVars, sheetVars, fetchVars, normVars, metricVars>>

\* the INSERT of the chunk at i resolved: the next INSERT, or the commit, is
\* awaited
ChunkOk ==
    /\ trx.pc = "chunk"
    /\ proposesOnce(slice(trx.batch, trx.i))
    /\ LET staged == insertOnConflict(trx.staged, slice(trx.batch, trx.i), trx.calls)
       IN  /\ trx' = [trx EXCEPT
                        !.staged = staged,
                        !.i = @ + chunkSize,
                        !.pc = IF trx.i + chunkSize < Len(trx.batch)
                               THEN "chunk" ELSE "commit"]
           /\ boxTariffs' = visible(boxTariffs, staged)
    /\ UNCHANGED <<upserts, readout>>
    /\ UNCHANGED <<schedVars, syncVars, sheetVars, fetchVars, normVars, metricVars>>

\* the INSERT of the chunk at i rejected (a chunk that proposes a key twice
\* always does): the rollback is awaited
ChunkFail ==
    /\ trx.pc = "chunk"
    /\ trx' = [trx EXCEPT !.pc = "rollback"]
    /\ UNCHANGED <<boxTariffs, upserts, readout>>
    /\ UNCHANGED <<schedVars, syncVars, sheetVars, fetchVars, normVars, metricVars>>

\* trx.commit() resolved: upsertTariffs returns
CommitOk ==
    /\ trx.pc = "commit"
    /\ boxTariffs' = trx.staged
    /\ upserts' = Append(upserts, [batch |-> trx.batch, now |-> trx.calls])
    /\ trx' = [trx EXCEPT !.pc = "returned"]
    /\ UNCHANGED readout
    /\ UNCHANGED <<schedVars, syncVars, sheetVars, fetchVars, normVars, metricVars>>

\* trx.commit() rejected: the rollback is awaited
CommitFail ==
    /\ trx.pc = "commit"
    /\ trx' = [trx EXCEPT !.pc = "rollback"]
    /\ UNCHANGED <<boxTariffs, upserts, readout>>
    /\ UNCHANGED <<schedVars, syncVars, sheetVars, fetchVars, normVars, metricVars>>

\* trx.rollback() settled: upsertTariffs throws the DatabaseError
RollbackDone ==
    /\ trx.pc = "rollback"
    /\ trx' = [trx EXCEPT !.pc = "thrown", !.raised = UpsertError]
    /\ UNCHANGED <<boxTariffs, upserts, readout>>
    /\ UNCHANGED <<schedVars, syncVars, sheetVars, fetchVars, normVars, metricVars>>

\* the characters of the names, in collation order
alphabet == <<" ", "0", "1", "2", "3", "4", "5", "6", "7", "8", "9", "A", "B", "C", "G", "W">>

collate(c) == CHOOSE n \in 1..Len(alphabet) : alphabet[n] = c

\* s sorts before t
nameLess(s, t) ==
    \E i \in 1..Len(t) :
        /\ i <= Len(s) + 1
        /\ \A j \in 1..(i - 1) : s[j] = t[j]
        /\ i > Len(s) \/ collate(s[i]) < collate(t[i])

\* ORDER BY box_delivery_coef ASC NULLS LAST, warehouse_name ASC
NullsFirst(a, b) ==
    IF a.box_delivery_coef.null # b.box_delivery_coef.null
    THEN a.box_delivery_coef.null
    ELSE IF a.box_delivery_coef.value # b.box_delivery_coef.value
    THEN a.box_delivery_coef.value < b.box_delivery_coef.value
    ELSE nameLess(a.warehouse_name, b.warehouse_name)

orderBefore(a, b) ==
    IF a.box_delivery_coef.null # b.box_delivery_coef.null
    THEN b.box_delivery_coef.null
    ELSE IF a.box_delivery_coef.value # b.box_delivery_coef.value
    THEN a.box_delivery_coef.value < b.box_delivery_coef.value
    ELSE nameLess(a.warehouse_name, b.warehouse_name)

\* the columns of the select list
selected(r) ==
    [warehouse_name |-> r.warehouse_name, geo_name |-> r.geo_name,
     box_delivery_coef |-> r.box_delivery_coef,
     box_delivery_base |-> r.box_delivery_base,
     box_delivery_liter |-> r.box_delivery_liter,
     box_storage_coef |-> r.box_storage_coef,
     box_storage_base |-> r.box_storage_base,
     box_storage_liter |-> r.box_storage_liter]

\* the rows the query of getTariffsByDate(date) gives on tbl
query(tbl, date) ==
    LET where(r) == r.date = date
        ordered  == SortSeq(SelectSeq(tbl, where), orderBefore)
    IN  [k \in 1..Len(ordered) |-> selected(ordered[k])]

\* getTariffsByDate(date), its query resolved
ReadRows(date) ==
    /\ readout' = [NoRead EXCEPT !.pc = "returned", !.date = date,
                                 !.rows = query(boxTariffs, date),
                                 !.snapshot = boxTariffs, !.at = Len(upserts)]
    /\ UNCHANGED <<boxTariffs, trx, upserts>>
    /\ UNCHANGED <<schedVars, syncVars, sheetVars, fetchVars, normVars, metricVars>>

\* getTariffsByDate(date), its query rejected
ReadRejects(date) ==
    /\ readout' = [NoRead EXCEPT !.pc = "thrown", !.date = date, !.raised = ReadError,
                                 !.snapshot = boxTariffs, !.at = Len(upserts)]
    /\ UNCHANGED <<boxTariffs, trx, upserts>>
    /\ UNCHANGED <<schedVars, syncVars, sheetVars, fetchVars, normVars, metricVars>>

NextStore ==
    \/ \E batch \in StoreBatches : upsertTariffs(batch)
    \/ BeginOk
    \/ BeginFail
    \/ ChunkOk
    \/ ChunkFail
    \/ CommitOk
    \/ CommitFail
    \/ RollbackDone
    \/ \E date \in StoreDates : ReadRows(date)
    \/ \E date \in StoreDates : ReadRejects(date)

SpecStore == Init /\ [][NextStore]_vars

\* the batches of the next upsertTariffs call: one of ChunkBatches in the
\* last call explored, and before it a batch that commits at most A and B
NextBatches ==
    IF trx.calls + 1 < MaxUpserts
    THEN {dbTariffs(<<rawA, rawB>>, date0120), dbTariffs(<<rawB>>, date1231)}
    ELSE ChunkBatches

NextChunks ==
    \/ \E batch \in NextBatches : upsertTariffs(batch)
    \/ BeginOk
    \/ BeginFail
    \/ ChunkOk
    \/ ChunkFail
    \/ CommitOk
    \/ CommitFail
    \/ RollbackDone
    \/ \E date \in StoreDates : ReadRows(date)
    \/ \E date \in StoreDates : ReadRejects(date)

SpecChunks == Init /\ [][NextChunks]_vars

(***************************************************************************)
(* Claims about SpecChunks and SpecStore                                   *)
(***************************************************************************)
\* the rows and the keys of a table
Rows(tbl) == {tbl[k] : k \in 1..Len(tbl)}
Keys(tbl) == {key(r) : r \in Rows(tbl)}

\* the rows of tbl that the upsertTariffs call number n wrote last
WrittenBy(tbl, n) == {r \in Rows(tbl) : r.updated_at = n}

\* C27: while an upsertTariffs call of a non-empty batch is in progress, and
\* after any of its statements or its commit has failed, the committed rows
\* are those from before the call: the failed call has rolled back and
\* thrown a DatabaseError, and whatever the number of chunks no row of the
\* call is stored; a getTariffsByDate call at any moment finds none of the
\* call's rows before it has returned and all of them after.
AllOrNothingAcrossChunks ==
    [][ /\ trx'.pc \in {"begin", "chunk", "commit", "rollback", "thrown"} =>
              /\ boxTariffs' = trx'.before
              /\ WrittenBy(boxTariffs', trx'.calls) = {}
        /\ (trx.pc \in {"chunk", "commit"} /\ trx'.pc \notin {"chunk", "commit", "returned"}) =>
              trx'.pc = "rollback"
        /\ (trx.pc = "rollback" /\ trx' # trx) =>
              (trx'.pc = "thrown" /\ trx'.raised.name = "DatabaseError")
        /\ (trx'.pc = "returned" /\ trx'.batch # <<>>) =>
              Keys(trx'.batch) = {key(r) : r \in WrittenBy(boxTariffs', trx'.calls)}
        /\ (readout' # readout /\ readout'.pc = "returned") =>
              LET mine == {r \in WrittenBy(readout'.snapshot, trx.calls) :
                              r.date = readout'.date}
              IN  /\ readout'.snapshot = boxTariffs
                  /\ Len(readout'.rows) =
                       Cardinality({r \in Rows(boxTariffs) : r.date = readout'.date})
                  /\ trx.pc # "returned" => mine = {}
                  /\ trx.pc = "returned" =>
                       {key(r) : r \in mine} =
                           {k \in Keys(trx.batch) : k[1] = readout'.date} ]_vars

\* a batch of chunkSize + 1 rows whose first statement resolved and whose
\* second was rejected has been rolled back: the two rows committed before
\* the call are the stored rows, and a reader has seen just these
SecondChunkRolledBackWitness ==
    /\ trx.pc = "thrown" /\ trx.raised = UpsertError
    /\ Len(trx.batch) = chunkSize + 1 /\ trx.i = chunkSize
    /\ Len(trx.staged) = chunkSize
    /\ Len(boxTariffs) = 2 /\ boxTariffs = trx.before
    /\ readout.pc = "returned" /\ Len(readout.rows) = 2 /\ readout.at = 1

\* the fields of a record that are not part of its key
NonKeyFields ==
    {"geo_name", "box_delivery_base", "box_delivery_liter", "box_delivery_coef",
     "box_delivery_marketplace_base", "box_delivery_marketplace_liter",
     "box_delivery_marketplace_coef", "box_storage_base", "box_storage_liter",
     "box_storage_coef"}

\* the last committed upsertTariffs call whose batch has key k
LastCallWith(k) ==
    CHOOSE n \in 1..Len(upserts) :
        /\ k \in Keys(upserts[n].batch)
        /\ \A m \in (n + 1)..Len(upserts) : k \notin Keys(upserts[m].batch)

\* C28: after any sequence of upsertTariffs calls the table has one row for
\* every key a committed call had and no other row, and in each row every
\* non-key field, null or not, is that of the record with the row's key in
\* the last committed call that had it.
UpsertIdempotentOnKey ==
    /\ \A i, j \in 1..Len(boxTariffs) :
          key(boxTariffs[i]) = key(boxTariffs[j]) => i = j
    /\ Keys(boxTariffs) = UNION {Keys(upserts[n].batch) : n \in 1..Len(upserts)}
    /\ \A r \in Rows(boxTariffs) :
          LET last == upserts[LastCallWith(key(r))]
              c    == CHOOSE c \in Rows(last.batch) : key(c) = key(r)
          IN  /\ \A f \in NonKeyFields : r[f] = c[f]
              /\ r.updated_at = last.now

\* two calls had the key of A; its row has the second call's coefficient 3
\* and the second call's absent region, base and storage coefficient
OverwrittenWithNullsWitness ==
    /\ Len(upserts) = 2 /\ Len(boxTariffs) = 2
    /\ \E r \in Rows(boxTariffs) :
          /\ r.warehouse_name = <<"A">> /\ r.created_at = 1 /\ r.updated_at = 2
          /\ r.box_delivery_coef = Some(3)
          /\ r.geo_name = NullString
          /\ r.box_delivery_base = NullString
          /\ r.box_storage_coef = NullNumber

\* C29: getTariffsByDate(date) returns the selected columns of every stored
\* row of that date and of no other row, each once; no row with a null
\* delivery coefficient comes before a row that has one, the coefficients
\* of the rows that have one never decrease, and of two neighbours with the
\* same coefficient, or both with none, the one with the smaller name comes
\* first.
ReadSortedByCoefficient ==
    readout.pc = "returned" =>
        LET got    == readout.rows
            stored == {r \in Rows(readout.snapshot) : r.date = readout.date}
        IN  /\ Len(got) = Cardinality(stored)
            /\ {got[k] : k \in 1..Len(got)} = {selected(r) : r \in stored}
            /\ \A k \in 1..(Len(got) - 1) :
                  LET a == got[k].box_delivery_coef
                      b == got[k + 1].box_delivery_coef
                  IN  /\ a.null => b.null
                      /\ (~a.null /\ ~b.null) => a.value <= b.value
                      /\ a = b => nameLess(got[k].warehouse_name,
                                           got[k + 1].warehouse_name)

\* A and AB have coefficient "-", B and C have "3": the call returned
\* B, C, A, AB
NullsLastWitness ==
    /\ readout.pc = "returned"
    /\ [k \in 1..Len(readout.rows) |-> readout.rows[k].warehouse_name]
          = << <<"B">>, <<"C">>, <<"A">>, <<"A", "B">> >>
    /\ readout.rows[2].box_delivery_coef = Some(3)
    /\ readout.rows[3].box_delivery_coef = NullNumber

\* C30: no step of upsertTariffs or getTariffsByDate removes a key from the
\* table, a commit leaves every row whose key is not in its batch as it
\* was, and a getTariffsByDate call returns every stored row of its date,
\* whichever call wrote it.
KeysOnlyGrow ==
    [][ /\ Keys(boxTariffs) \subseteq Keys(boxTariffs')
        /\ \A r \in Rows(boxTariffs) :
              key(r) \notin Keys(trx.batch) => r \in Rows(boxTariffs')
        /\ (readout' # readout /\ readout'.pc = "returned") =>
              \A r \in Rows(boxTariffs) :
                  r.date = readout'.date =>
                      \E k \in 1..Len(readout'.rows) : readout'.rows[k] = selected(r)
      ]_vars

\* the second committed call had neither A nor B; their rows are as the
\* first call wrote them and are in what getTariffsByDate returned after it
EarlierRowsReadBackWitness ==
    /\ Len(upserts) = 2
    /\ Keys(upserts[2].batch) = {<<date0120, <<"A", "B">>>>, <<date0120, <<"C">>>>}
    /\ \E r \in Rows(boxTariffs) : r.warehouse_name = <<"A">> /\ r.updated_at = 1
    /\ \E r \in Rows(boxTariffs) : r.warehouse_name = <<"B">> /\ r.updated_at = 1
    /\ readout.pc = "returned" /\ readout.at = 2 /\ readout.date = date0120
    /\ \E k \in 1..Len(readout.rows) : readout.rows[k].warehouse_name = <<"A">>
    /\ \E k \in 1..Len(readout.rows) : readout.rows[k].warehouse_name = <<"B">>

(***************************************************************************)
(* SpecMetrics: a MetricsCollector                                         *)
(***************************************************************************)
\* the count arguments of getRecentMetrics
Counts == {0, 1, 10, 100, 200}

\* what completeSync is called with: the success argument and the
\* milliseconds between the metric's startTime and Date.now()
Outcomes == {<<TRUE, 100>>, <<FALSE, 200>>}

\* `id`: the number of the startSync call that made the metric
timedMetric(id) == [id |-> id, duration |-> NullNumber, success |-> FALSE]

\* completeSync, the fields the queries read
completeTimed(metric, success, elapsed) ==
    [metric EXCEPT !.duration = Some(elapsed), !.success = success]

\* Array.prototype.slice(start): a negative start counts from the end
arraySlice(list, start) ==
    LET from == IF start < 0
                THEN (IF Len(list) + start > 0 THEN Len(list) + start ELSE 0)
                ELSE (IF start < Len(list) THEN start ELSE Len(list))
    IN  SubSeq(list, from + 1, Len(list))

\* -count is -0 for count 0, and slice(-0) is slice(0)
getRecentMetrics(list, count) == arraySlice(list, 0 - count)

\* a quotient of two integers
Quotient(num, den) == [num |-> num, den |-> den]

getSuccessRate(list) ==
    IF Len(list) = 0 THEN Quotient(0, 1)
    ELSE LET successCount == Len(SelectSeq(list, LAMBDA m : m.success))
         IN  Quotient(successCount * 100, Len(list))

RECURSIVE totalDuration(_)
totalDuration(completed) ==
    IF completed = <<>> THEN 0
    ELSE Head(completed).duration.value + totalDuration(Tail(completed))

AverageOverAll(list) ==
    LET completed == SelectSeq(list, LAMBDA m : ~m.duration.null)
    IN  IF Len(list) = 0 THEN Quotient(0, 1)
        ELSE Quotient(totalDuration(completed), Len(list))

getAverageDuration(list) ==
    LET completed == SelectSeq(list, LAMBDA m : ~m.duration.null)
    IN  IF Len(completed) = 0 THEN Quotient(0, 1)
        ELSE Quotient(totalDuration(completed), Len(completed))

\* startSync: only the metrics of the first MaxFree calls are left without
\* their completeSync when the next call is made
MetricsStart ==
    /\ begun < MaxBegins
    /\ \A id \in open : id <= MaxFree
    /\ begun' = begun + 1
    /\ collector' = startSync(collector, timedMetric(begun + 1))
    /\ open' = open \cup {begun + 1}
    /\ stats' = NoStats
    /\ UNCHANGED <<schedVars, syncVars, sheetVars, fetchVars, normVars, storeVars>>

\* completeSync(metric, success): the metric is changed where it is; one
\* that was shifted out is no longer in the array
MetricsComplete(id, outcome) ==
    /\ id \in open
    /\ id > MaxFree => outcome = <<TRUE, 100>>
    /\ collector' = [k \in 1..Len(collector) |->
                        IF collector[k].id = id
                        THEN completeTimed(collector[k], outcome[1], outcome[2])
                        ELSE collector[k]]
    /\ open' = open \ {id}
    /\ stats' = NoStats
    /\ UNCHANGED begun
    /\ UNCHANGED <<schedVars, syncVars, sheetVars, fetchVars, normVars, storeVars>>

RecentMetrics(count) ==
    /\ stats' = [NoStats EXCEPT !.op = "getRecentMetrics", !.count = count,
                                !.list = getRecentMetrics(collector, count)]
    /\ stats' # stats
    /\ UNCHANGED <<collector, begun, open>>
    /\ UNCHANGED <<schedVars, syncVars, sheetVars, fetchVars, normVars, storeVars>>

SuccessRate ==
    /\ stats' = [NoStats EXCEPT !.op = "getSuccessRate",
                                !.num = getSuccessRate(collector).num,
                                !.den = getSuccessRate(collector).den]
    /\ stats' # stats
    /\ UNCHANGED <<collector, begun, open>>
    /\ UNCHANGED <<schedVars, syncVars, sheetVars, fetchVars, normVars, storeVars>>

AverageDuration ==
    /\ stats' = [NoStats EXCEPT !.op = "getAverageDuration",
                                !.num = getAverageDuration(collector).num,
                                !.den = getAverageDuration(collector).den]
    /\ stats' # stats
    /\ UNCHANGED <<collector, begun, open>>
    /\ UNCHANGED <<schedVars, syncVars, sheetVars, fetchVars, normVars, storeVars>>

NextMetrics ==
    \/ MetricsStart
    \/ \E id \in open, outcome \in Outcomes : MetricsComplete(id, outcome)
    \/ \E count \in Counts : RecentMetrics(count)
    \/ SuccessRate
    \/ AverageDuration

SpecMetrics == Init /\ [][NextMetrics]_vars

(***************************************************************************)
(* Claims about SpecMetrics                                                *)
(***************************************************************************)
\* C31: after any number of startSync calls the array holds as many metrics
\* as calls were made, and maxHistory of them once that many were made; they
\* are the metrics of the last calls, in call order.
HistoryHoldsLastBegun ==
    /\ Len(collector) = (IF begun < maxHistory THEN begun ELSE maxHistory)
    /\ Len(collector) <= 100
    /\ \A k \in 1..Len(collector) :
          collector[k].id = begun - Len(collector) + k

\* 102 calls were made: the metrics of calls 3 to 102 are held
OldestEvictedWitness ==
    /\ begun = 102
    /\ Len(collector) = 100
    /\ collector[1].id = 3
    /\ collector[100].id = 102

\* the smaller of two numbers
Min(a, b) == IF a < b THEN a ELSE b

\* C32: getRecentMetrics(count) with any count from 0 returns
\* min(count, length of the array) metrics, the last ones of the array in
\* the array's order.
RecentReturnsLastCount ==
    stats.op = "getRecentMetrics" =>
        /\ Len(stats.list) = Min(stats.count, Len(collector))
        /\ \A k \in 1..Len(stats.list) :
              stats.list[k] = collector[Len(collector) - Len(stats.list) + k]

\* the sum of the durations of the metrics of `list` at the indices in S
RECURSIVE SumDurations(_, _)
SumDurations(list, S) ==
    IF S = {} THEN 0
    ELSE LET k == CHOOSE k \in S : TRUE
         IN  list[k].duration.value + SumDurations(list, S \ {k})

\* C33: getSuccessRate and getAverageDuration return 0 on an empty array;
\* on any other, getSuccessRate returns 100 times the number of metrics with
\* success true over the number of metrics, which is 100 when all have it
\* and 0 when none has, and getAverageDuration returns the sum of the
\* durations over the number of the metrics that have a duration.
RatesOverRecordedRuns ==
    LET all       == 1..Len(collector)
        succeeded == {k \in all : collector[k].success}
        timed     == {k \in all : ~collector[k].duration.null}
    IN  /\ stats.op = "getSuccessRate" =>
              /\ stats.den > 0
              /\ all = {} => stats.num = 0
              /\ all # {} =>
                    stats.num * Cardinality(all) = 100 * Cardinality(succeeded) * stats.den
              /\ (all # {} /\ succeeded = all) => stats.num = 100 * stats.den
              /\ succeeded = {} => stats.num = 0
        /\ stats.op = "getAverageDuration" =>
              /\ stats.den > 0
              /\ all = {} => stats.num = 0
              /\ timed # {} =>
                    stats.num * Cardinality(timed) = SumDurations(collector, timed) * stats.den

\* of three metrics one has no duration and the others have 100 and 200:
\* the average is 150
AverageOfTimedWitness ==
    /\ stats.op = "getAverageDuration"
    /\ Len(collector) = 3
    /\ open # {}
    /\ stats.num = 300 /\ stats.den = 2

(***************************************************************************)
(* Claims about termination                                                *)
(***************************************************************************)
\* SpecSheets with the steps the program itself brings about: the timer of
\* sleep(delay) fires, and the query of getSpreadsheetIds, which the
\* connection pool bounds, settles.  values.clear and values.update are
\* awaited with no timer beside them: they settle when Google answers.
FairSheets ==
    /\ SpecSheets
    /\ WF_vars(\E r \in 1..Len(syncs), d \in Dests : SleepDone(r, d))
    /\ WF_vars(\E r \in 1..Len(syncs) : IdsOk(r) \/ IdsFail(r))

\* C34: every syncTariffs invocation that has started eventually is
\* Completed or Failed.
EveryRunSettles ==
    (Len(syncs) = 1) ~> (Len(syncs) = 1 /\ syncs[1].pc \in Terminal)

(***************************************************************************)
(* Further claims about Spec                                               *)
(***************************************************************************)
\* C35: in every reachable state getStatus().syncInProgress is true if a
\* run is in flight and false if none is.
StatusFlagAccurate == getStatus.syncInProgress <=> (InFlight # {})

(***************************************************************************)
(* Further claims about SpecSheets                                         *)
(***************************************************************************)
\* C36: a spreadsheet whose updateSpreadsheet call has thrown after its
\* last attempt has the rows it had before the call.
FailedPublishKeepsSheet ==
    \A d \in Dests :
        (d \in DOMAIN updates /\ updates[d].pc = "rejected") => sheets[d] = OldSheet

\* C38: the exportedCount of an invocation that completed is the number of
\* rows written to the spreadsheets whose update succeeded: the number of
\* rows read back if some update succeeded, and 0 if none did, as when no
\* spreadsheet is registered.
ExportedCountsWrittenRows ==
    \A r \in 1..Len(syncs) :
        syncs[r].pc = "Completed" =>
            syncs[r].metric.exportedCount =
                (IF Fulfilled # {} THEN Len(tariffs) ELSE 0)

(***************************************************************************)
(* Further claims about SpecSync                                           *)
(***************************************************************************)
\* C37: the metric of every syncTariffs invocation that has settled has
\* savedCount 0 or equal to fetchedCount; if its exportedCount is above 0
\* it has success true and savedCount = fetchedCount > 0; if it has success
\* true, either its three counts are 0 or savedCount = fetchedCount > 0 and
\* exportedCount > 0; if it has success false, its exportedCount is 0 and
\* it has an error message.
FinalizedRecordShape ==
    \A r \in 1..Len(syncs) :
        syncs[r].pc \in Terminal =>
            LET m == syncs[r].metric
            IN  /\ m.ended
                /\ m.savedCount \in {0, m.fetchedCount}
                /\ m.exportedCount > 0 =>
                      (m.success /\ m.savedCount = m.fetchedCount /\ m.fetchedCount > 0)
                /\ m.success =>
                      \/ m.fetchedCount = 0 /\ m.savedCount = 0 /\ m.exportedCount = 0
                      \/ m.savedCount = m.fetchedCount /\ m.fetchedCount > 0
                            /\ m.exportedCount > 0
                /\ ~m.success => (m.exportedCount = 0 /\ m.error # Undefined)

\* one invocation completed after exporting, and one failed after it had
\* saved what it fetched
ExportedAndFailedAfterSaveWitness ==
    /\ \E r \in 1..Len(syncs) :
          syncs[r].pc = "Completed" /\ syncs[r].metric.exportedCount > 0
    /\ \E r \in 1..Len(syncs) :
          /\ syncs[r].pc = "Failed" /\ syncs[r].metric.fetchedCount > 0
          /\ syncs[r].metric.savedCount = syncs[r].metric.fetchedCount
          /\ syncs[r].metric.error # Undefined
\* a name, or a region, that has a character other than a space
NotBlank(name) == \E k \in 1..Len(name) : name[k] # " "

BlankNameOrRegionThrows ==
    norm.pc # "idle" =>
        LET bad == \E i \in 1..Len(norm.tariffs) :
                      \/ ~NotBlank(norm.tariffs[i].warehouseName)
                      \/ /\ norm.tariffs[i].geoName # <<>>
                         /\ ~NotBlank(norm.tariffs[i].geoName)
        IN  /\ bad <=> norm.pc = "thrown"
            /\ bad => (norm.result = <<>> /\ norm.error.name = "ValidationError")

(***************************************************************************)
(* Further claims about SpecNorm                                           *)
(***************************************************************************)
\* C40: transformToDbFormat returns one record per entry, in the order of
\* the entries, and when the entries have pairwise different warehouseName
\* the records have pairwise different (date, warehouse_name).
DistinctNamesGiveDistinctKeys ==
    norm.pc = "returned" =>
        LET n == Len(norm.tariffs)
        IN  /\ Len(norm.result) = n
            /\ \A i \in 1..n :
                  IsPrefix(norm.result[i].warehouse_name,
                           TrimStart(norm.tariffs[i].warehouseName))
            /\ (\A i, j \in 1..n :
                   i # j => norm.tariffs[i].warehouseName # norm.tariffs[j].warehouseName)
               => (\A i, j \in 1..n :
                      i # j => key(norm.result[i]) # key(norm.result[j]))

====
